---- MODULE Spec2Model ----
(***************************************************************************)
(* Model of one run of the helm deploy action: parseConfig (config.ts),   *)
(* deployHelmChart / helmPush / helmDelete / helmUpgrade (deploy.ts) and   *)
(* the entrypoint (main.ts).  The external helm executable, the file       *)
(* system and the tmp library are the environment: every helm invocation   *)
(* may exit zero or non-zero, and the package step may or may not leave    *)
(* the archive on disk.                                                    *)
(***************************************************************************)
EXTENDS Naturals, Sequences, FiniteSets, TLC

VARIABLES
    input,      \* the raw action inputs read through core.getInput
    conf,       \* the HelmDeployConfig built by parseConfig (mutated by the run)
    pc,         \* position of the run
    fs,         \* absolute paths that exist on disk
    valuesDoc,  \* content of the values override file ("" while not written
                \* and while it is truncated)
    kubeconfigDoc,  \* content of the tmp kubeconfig file ("" while not written)
    configs,    \* HelmConfigFiles: names of the two credential tmp files
    kubeconfigFile, \* name of the kubeconfig tmp file
    tmpSeq,     \* number of tmp files handed out so far
    tracked,    \* tmp files the tmp package still removes when the process exits
    docs,       \* the documents written to the credential tmp files, by file name
    calls,      \* helm invocations made so far, in order
    statuses,   \* status() calls made so far, in order
    promises,   \* the render promises that have not settled, by position in
                \* the list of files: the file, the stage, the size fstat
                \* reported and the rendered text
    other,      \* a second run of the action in the same directory: how far
                \* it is with values.yml, the size it saw and the text it rendered
    inflight,   \* the helm invocation made that has not returned yet
    error,      \* the error in flight or reported
    outcome     \* "running", "success" or "failure"

vars == << input, conf, pc, fs, configs, kubeconfigFile, tmpSeq, calls,
           statuses, promises, error, outcome, valuesDoc, kubeconfigDoc,
           tracked, docs, other, inflight >>

----------------------------------------------------------------------------
(* Bounds of the model *)

MaxDeps == 3
MaxValueFiles == 2

----------------------------------------------------------------------------
(* Generic helpers *)

SeqsUpTo(S, n) == UNION { [1..k -> S] : k \in 0..n }

NoError == [type |-> "none", msg |-> ""]
Err(t, m) == [type |-> t, msg |-> m]

\* the first error of an ordered list of checks, or NoError
RECURSIVE FirstError(_)
FirstError(errs) ==
    IF errs = << >> THEN NoError
    ELSE IF Head(errs) # NoError THEN Head(errs)
         ELSE FirstError(Tail(errs))

----------------------------------------------------------------------------
(* Strings of the model and their lexical facts *)

\* String.prototype.trim on the strings of the model: " " is the only
\* whitespace-only string
trim(v) == IF v = " " THEN "" ELSE v

\* String.prototype.toLowerCase on the command strings of the model
toLowerCase(v) ==
    CASE v = "DELETE" -> "delete"
      [] v = "Yes" -> "yes"
      [] v = "TRUE" -> "true"
      [] v = "No" -> "no"
      [] OTHER -> v

is_defined(v) == trim(v) # ""

\* core.getInput(name): the value of the input, whitespace trimmed
getInput(raw) == trim(raw)

----------------------------------------------------------------------------
(* The file system the run starts in.  The working directory is /ws. *)

\* paths that are directories
Dirs == { "/ws", "/tmp", "/ws/mychart", "/ws/charts/app", "/ws/bare",
          "/ws/https:/example.com/charts/local" }

InitFS == Dirs \cup { "/ws/mychart/Chart.yaml", "/ws/charts/app/Chart.yaml",
                      "/ws/https:/example.com/charts/local/Chart.yaml",
                      "/ws/notes.txt", "/ws/f1.yml", "/ws/f2.yml", "/ws/f3.yml" }

\* the text of the value files of the model; ${{ }} are the tags of the
\* renderer
Template == "token: ${{ secrets.token }}"
InitDocs ==
    ("/ws/f1.yml" :> "a: 1") @@ ("/ws/f2.yml" :> "b: 2") @@ ("/ws/f3.yml" :> Template)

\* a relative path of the model joined to the working directory
Absolute(p) ==
    CASE p = "./mychart" -> "/ws/mychart"
      [] p = "./mychart/Chart.yaml" -> "/ws/mychart/Chart.yaml"
      [] p = "charts/app" -> "/ws/charts/app"
      [] p = "stable/linkerd" -> "/ws/stable/linkerd"
      [] p = "./missing" -> "/ws/missing"
      [] p = "./notes.txt" -> "/ws/notes.txt"
      [] p = "./bare" -> "/ws/bare"
      [] p = "values.yml" -> "/ws/values.yml"
      [] p = "https://example.com/charts/app" -> "/ws/https:/example.com/charts/app"
      [] p = "https://example.com/charts/local" -> "/ws/https:/example.com/charts/local"
      [] OTHER -> p

\* utils.pathExists: stat succeeds
pathExists(p, disk) == Absolute(p) \in disk

\* path.basename / path.dirname / path.join on the absolute paths of the model
basename(p) == IF p = "/ws/mychart/Chart.yaml" THEN "Chart.yaml" ELSE p
dirname(p) == IF p = "/ws/mychart/Chart.yaml" THEN "/ws/mychart" ELSE p
join(dir, name) == dir \o "/" \o name

\* YAML.parse of the manifest files of the model; defined = FALSE stands for
\* an undefined chartMetadata
NoChartMetadata == [defined |-> FALSE, name |-> "", version |-> ""]
ChartYAML(p) ==
    CASE p = "/ws/mychart/Chart.yaml" ->
            [defined |-> TRUE, name |-> "myactualchart", version |-> "0.3.0"]
      [] p = "/ws/charts/app/Chart.yaml" ->
            [defined |-> TRUE, name |-> "app", version |-> "1.0.0"]
      [] p = "/ws/https:/example.com/charts/local/Chart.yaml" ->
            [defined |-> TRUE, name |-> "local", version |-> "2.0.0"]
      [] OTHER -> NoChartMetadata

\* lexical facts of the chart strings of the model: path.extname(chart),
\* chart.split(path.sep).length, chart.indexOf('~'), chart.indexOf('.')
ChartShape(c) ==
    CASE c = "stable/linkerd" -> [extname |-> "", segments |-> 2, tilde |-> FALSE, dot |-> FALSE]
      [] c = "charts/app" -> [extname |-> "", segments |-> 2, tilde |-> FALSE, dot |-> FALSE]
      [] c = "./mychart" -> [extname |-> "", segments |-> 2, tilde |-> FALSE, dot |-> TRUE]
      [] c = "./missing" -> [extname |-> "", segments |-> 2, tilde |-> FALSE, dot |-> TRUE]
      [] c = "./bare" -> [extname |-> "", segments |-> 2, tilde |-> FALSE, dot |-> TRUE]
      [] c = "./notes.txt" -> [extname |-> ".txt", segments |-> 2, tilde |-> FALSE, dot |-> TRUE]
      [] c = "./mychart/Chart.yaml" -> [extname |-> ".yaml", segments |-> 3, tilde |-> FALSE, dot |-> TRUE]
      [] c = "https://example.com/charts/app" -> [extname |-> "", segments |-> 5, tilde |-> FALSE, dot |-> TRUE]
      [] c = "https://example.com/charts/local" -> [extname |-> "", segments |-> 5, tilde |-> FALSE, dot |-> TRUE]
      [] OTHER -> [extname |-> "", segments |-> 1, tilde |-> FALSE, dot |-> FALSE]

\* url.isValidHttpURL: the string parses as an absolute http(s) URL
isValidHttpURL(c) ==
    c \in { "https://example.com/charts/app", "https://example.com/charts/local" }

validRelativeRepoChart(c) ==
    /\ ChartShape(c).extname = ""
    /\ ChartShape(c).segments = 2
    /\ ~ChartShape(c).tilde
    /\ ~ChartShape(c).dot

validRepoChart(c) == validRelativeRepoChart(c) \/ isValidHttpURL(c)

----------------------------------------------------------------------------
(* Raw inputs.  A structured input (value-files, dependencies) is a string;  *)
(* the model keeps, with its text, what JSON.parse makes of it:              *)
(*   empty  - the empty string (JSON.parse throws)                           *)
(*   plain  - text that is not JSON (JSON.parse throws)                      *)
(*   array  - the JSON text of the array `items`                             *)
(*   scalar - the JSON text of a non-zero number, true or a non-empty string *)
(*   object - the JSON text of an object with the key/value pairs `items`    *)
(* and, for a value that is handed over as an array rather than as a string: *)
(*   list   - the array `items` itself                                       *)

RawEmpty == [kind |-> "empty", text |-> "", items |-> << >>]
RawPlain(t) == [kind |-> "plain", text |-> t, items |-> << >>]
RawArray(xs) == [kind |-> "array", text |-> "", items |-> xs]
RawScalar(t) == [kind |-> "scalar", text |-> t, items |-> << >>]
JsArray(xs) == [kind |-> "list", text |-> "", items |-> xs]
RawObject(fields) == [kind |-> "object", text |-> "", items |-> fields]

\* config.DEFAULT_CONF, as the strings defaultValue.toString() gives
DEFAULT_CONF ==
    [namespace |-> "default", useOCI |-> "true", force |-> "false",
     dryRun |-> "false", atomic |-> "true"]

MissingConfigError(key) ==
    Err("MissingConfigError", "required and not supplied: " \o key)

\* config.parseInput for a key of DEFAULT_CONF: the default replaces ''
parseInputDefault(raw, default) ==
    IF getInput(raw) = "" THEN default ELSE getInput(raw)

\* mutation: required inputs are not checked
requiredError_Never(raw, key, required) == NoError

\* core.getInput(name, { required }): the error @actions/core throws for a
\* required, empty input; the value is tested before it is trimmed
requiredError(raw, key, required) ==
    IF required /\ raw = ""
    THEN Err("Error", "Input required and not supplied: " \o key)
    ELSE NoError

\* config.parseBooleanInput
trueValues == { "true", "yes" }
falseValues == { "false", "no" }
parseBooleanError(raw, default, key) ==
    IF toLowerCase(parseInputDefault(raw, default)) \in trueValues \cup falseValues
    THEN NoError
    ELSE Err("TypeError", "Boolean input \"" \o key \o "\" must be one of: true,yes,false,no")
parseBooleanInput(raw, default) ==
    toLowerCase(parseInputDefault(raw, default)) \in trueValues

\* mutation: an absent values input is passed through verbatim
parseValues_Verbatim(values) == values

\* config.parseValues on the string parseInput returns
parseValues(values) == IF values = "" THEN "{}" ELSE values

\* Array.prototype.filter(f => !!f) on a list of strings
RECURSIVE filterTruthy(_)
filterTruthy(xs) ==
    IF xs = << >> THEN << >>
    ELSE IF Head(xs) # "" THEN << Head(xs) >> \o filterTruthy(Tail(xs))
         ELSE filterTruthy(Tail(xs))

\* mutation: a value that is not a string yields no files
parseValueFiles_StringsOnly(files) ==
    CASE files.kind = "array" -> filterTruthy(files.items)
      [] files.kind \in { "scalar", "object", "list" } -> << >>
      [] OTHER -> filterTruthy(<< files.text >>)

\* mutation: a string that parses to something other than an array is kept
\* as a file name
parseValueFiles_ScalarKept(files) ==
    CASE files.kind \in { "array", "list" } -> filterTruthy(files.items)
      [] OTHER -> filterTruthy(<< files.text >>)

\* config.parseValueFiles on the string parseInput returns, or on an array
parseValueFiles(files) ==
    CASE files.kind \in { "array", "list" } -> filterTruthy(files.items)
      [] files.kind \in { "scalar", "object" } -> << >>
      [] OTHER -> filterTruthy(<< files.text >>)

\* config.parseDependencies on the string parseInput returns, or on an array
parseDependenciesError(deps) ==
    IF deps.kind = "plain"
    THEN Err("Error", "dependencies must be a valid YAML or JSON array")
    ELSE NoError
\* the object JSON.parse gives for the text of an object, read as a HelmRepo:
\* its own keys, and '' for each HelmRepo key it does not have (undefined)
NoRepo == [url |-> "", alias |-> "", username |-> "", password |-> ""]
JSONObject(fields) ==
    [k \in { fields[i].key : i \in 1..Len(fields) } |->
        (CHOOSE f \in { fields[i] : i \in 1..Len(fields) } : f.key = k).value]
        @@ NoRepo
parseDependencies(deps) ==
    CASE deps.kind \in { "array", "list" } -> deps.items
      [] deps.kind = "scalar" -> << deps.text >>
      [] deps.kind = "object" -> << JSONObject(deps.items) >>
      [] OTHER -> << >>

\* config.parseSecrets: the parsed JSON value, or the string itself when it
\* is not JSON
parseSecrets(secrets) ==
    IF secrets.kind \in { "empty", "plain" }
    THEN [parsed |-> FALSE, text |-> secrets.text, fields |-> << >>]
    ELSE [parsed |-> TRUE, text |-> "", fields |-> secrets.items]

\* config.parseConfig, chart resolution: the error thrown, if any
resolveChartError(chart, disk) ==
    LET real == Absolute(chart)
        dir == IF basename(real) = "Chart.yaml" THEN dirname(real) ELSE real
    IN  IF chart = "" THEN NoError
        ELSE IF real \notin disk
        THEN IF validRepoChart(chart) THEN NoError
             ELSE Err("FsError", "ENOENT: no such file or directory, realpath '"
                                 \o chart \o "'")
        ELSE IF dir \notin Dirs THEN Err("Error", dir \o " is not a directory")
        ELSE IF join(dir, "Chart.yaml") \notin disk
        THEN Err("FsError", "ENOENT: no such file or directory, open '"
                            \o join(dir, "Chart.yaml") \o "'")
        ELSE NoError

\* mutation: a well-formed remote reference is never looked up on disk
resolveChart_ReferenceWins(chart, disk) ==
    LET real == Absolute(chart)
        dir == IF basename(real) = "Chart.yaml" THEN dirname(real) ELSE real
    IN  IF chart = "" \/ real \notin disk \/ validRepoChart(chart)
        THEN [chart |-> chart, chartMetadata |-> NoChartMetadata]
        ELSE [chart |-> dir, chartMetadata |-> ChartYAML(join(dir, "Chart.yaml"))]

\* config.parseConfig, chart resolution: the chart path and its metadata
resolveChart(chart, disk) ==
    LET real == Absolute(chart)
        dir == IF basename(real) = "Chart.yaml" THEN dirname(real) ELSE real
    IN  IF chart = "" \/ real \notin disk
        THEN [chart |-> chart, chartMetadata |-> NoChartMetadata]
        ELSE [chart |-> dir, chartMetadata |-> ChartYAML(join(dir, "Chart.yaml"))]

\* config.parseConfig: the first error thrown, in evaluation order
parseConfigError(in, disk) ==
    LET command == toLowerCase(getInput(in.command))
        isPush == command = "push"
        isUpgrade == command = "upgrade"
        isRemove == command = "remove"
    IN  FirstError(<<
            requiredError(in.chart, "chart", isUpgrade \/ isPush),
            resolveChartError(getInput(in.chart), disk),
            requiredError(in.release, "release", isRemove \/ isUpgrade),
            parseBooleanError(in.dryRun, DEFAULT_CONF.dryRun, "dry-run"),
            parseBooleanError(in.atomic, DEFAULT_CONF.atomic, "atomic"),
            requiredError(in.repo, "repo", isPush),
            parseBooleanError(in.useOCI, DEFAULT_CONF.useOCI, "use-oci"),
            parseDependenciesError(in.dependencies),
            parseBooleanError(in.force, DEFAULT_CONF.force, "force")
        >>)

\* config.parseConfig: the HelmDeployConfig returned
parseConfig(in, disk) ==
    [command |-> toLowerCase(getInput(in.command)),
     release |-> getInput(in.release),
     namespace |-> parseInputDefault(in.namespace, DEFAULT_CONF.namespace),
     kubeconfigPath |-> getInput(in.kubeconfigPath),
     kubeconfigInline |-> getInput(in.kubeconfigInline),
     timeout |-> getInput(in.timeout),
     values |-> parseValues(getInput(in.values)),
     secrets |-> parseSecrets(in.secrets),
     dry |-> parseBooleanInput(in.dryRun, DEFAULT_CONF.dryRun),
     atomic |-> parseBooleanInput(in.atomic, DEFAULT_CONF.atomic),
     valueFiles |-> parseValueFiles(in.valueFiles),
     chart |-> resolveChart(getInput(in.chart), disk).chart,
     chartMetadata |-> resolveChart(getInput(in.chart), disk).chartMetadata,
     chartVersion |-> getInput(in.chartVersion),
     repo |-> getInput(in.repo),
     repoAlias |-> IF getInput(in.repoAlias) = "" THEN "source-chart-repo"
                   ELSE getInput(in.repoAlias),
     repoUsername |-> getInput(in.repoUsername),
     repoPassword |-> getInput(in.repoPassword),
     useOCI |-> parseBooleanInput(in.useOCI, DEFAULT_CONF.useOCI),
     dependencies |-> parseDependencies(in.dependencies),
     appVersion |-> getInput(in.appVersion),
     force |-> parseBooleanInput(in.force, DEFAULT_CONF.force)]

\* config.getRepoConfig
getRepoConfig(c) ==
    [url |-> c.repo, alias |-> c.repoAlias,
     username |-> c.repoUsername, password |-> c.repoPassword]

----------------------------------------------------------------------------
(* URLs.  A URL object is its protocol and the rest of its href. *)

RepoURL == "https://charts.example.com/bitnami"
OciRepoURL == "oci://registry.example.com/charts"
DepURL == "https://charts.example.com/flink"
Dep2URL == "https://charts.example.com/zookeeper"
BadURL == "charts.example.com"
HttpRepoURL == "http://charts.example.com/stable"
S3RepoURL == "s3://bucket.example.com/charts"

\* new URL(s): valid = FALSE stands for the TypeError it throws
URL(s) ==
    CASE s = RepoURL -> [valid |-> TRUE, protocol |-> "https:", rest |-> "//charts.example.com/bitnami"]
      [] s = OciRepoURL -> [valid |-> TRUE, protocol |-> "oci:", rest |-> "//registry.example.com/charts"]
      [] s = DepURL -> [valid |-> TRUE, protocol |-> "https:", rest |-> "//charts.example.com/flink"]
      [] s = Dep2URL -> [valid |-> TRUE, protocol |-> "https:", rest |-> "//charts.example.com/zookeeper"]
      [] s = HttpRepoURL -> [valid |-> TRUE, protocol |-> "http:", rest |-> "//charts.example.com/stable"]
      [] s = S3RepoURL -> [valid |-> TRUE, protocol |-> "s3:", rest |-> "//bucket.example.com/charts"]
      [] OTHER -> [valid |-> FALSE, protocol |-> "", rest |-> ""]

\* URL.prototype.toString
toString(u) == u.protocol \o u.rest

\* the schemes the URL standard calls special
SpecialProtocols == { "http:", "https:", "ftp:", "ws:", "wss:", "file:" }

\* the protocol setter of URL: a change between a special and a non-special
\* scheme is ignored
setProtocol(u, protocol) ==
    IF (u.protocol \in SpecialProtocols) = (protocol \in SpecialProtocols)
    THEN [u EXCEPT !.protocol = protocol]
    ELSE u

\* url.replaceProtocol applied through the href setter
setHrefProtocol(u, protocol) == [u EXCEPT !.protocol = protocol]

\* mutation: the href workaround is lost
fixReplaceURLProtocol_Noop(u, oldProtocol, newProtocol) == u

\* url.fixReplaceURLProtocol
fixReplaceURLProtocol(u, oldProtocol, newProtocol) ==
    IF u.protocol = oldProtocol THEN setHrefProtocol(u, newProtocol) ELSE u

\* url.replaceURLProtocol
replaceURLProtocol(u, protocol) ==
    IF u.protocol # protocol
    THEN fixReplaceURLProtocol(setProtocol(u, protocol), u.protocol, protocol)
    ELSE u

----------------------------------------------------------------------------
(* Credential artifacts *)

\* tmp.fileSync({ postfix }): the n-th name handed out in this run
tmpName(n, postfix) == "/tmp/tmp-" \o ToString(n) \o "-" \o postfix

NoConfigs == [repositoryConfigFile |-> "", registryConfigFile |-> ""]

\* mutation: the check of a password supplied without a username is lost
pairedCredentialError_UsernameOnly(c) ==
    IF is_defined(c.repoUsername) /\ ~is_defined(c.repoPassword)
    THEN Err("Error", "supplied repo-username but missing repo-password")
    ELSE NoError

\* deploy.buildHelmConfigFiles: the paired-credential checks
pairedCredentialError(c) ==
    IF is_defined(c.repoUsername) /\ ~is_defined(c.repoPassword)
    THEN Err("Error", "supplied repo-username but missing repo-password")
    ELSE IF is_defined(c.repoPassword) /\ ~is_defined(c.repoUsername)
    THEN Err("Error", "supplied repo-password but missing repo-username")
    ELSE NoError

\* deploy.buildRepositoryConfigYaml: new URL(...) throws on an unparseable
\* repo or dependency url
\* mutation: the entries are not marked to pass credentials
repositoryEntry_NoPassCredentials(repo, useOCI) ==
    [url |-> toString(IF useOCI THEN replaceURLProtocol(URL(repo.url), "oci:")
                      ELSE URL(repo.url)),
     pass_credentials_all |-> FALSE] @@ repo

\* deploy.buildRepositoryConfigYaml: the entry made of one repository,
\* { ...d, url, pass_credentials_all: true }
repositoryEntry(repo, useOCI) ==
    [url |-> toString(IF useOCI THEN replaceURLProtocol(URL(repo.url), "oci:")
                      ELSE URL(repo.url)),
     pass_credentials_all |-> TRUE] @@ repo

\* Array.prototype.filter(d => is_defined(d.url))
RECURSIVE filterDefinedURL(_)
filterDefinedURL(deps) ==
    IF deps = << >> THEN << >>
    ELSE IF is_defined(Head(deps).url)
         THEN << Head(deps) >> \o filterDefinedURL(Tail(deps))
         ELSE filterDefinedURL(Tail(deps))

\* deploy.buildRepositoryConfigYaml: the document, for a configuration whose
\* urls parse
buildRepositoryConfigYaml(c) ==
    LET deps == filterDefinedURL(c.dependencies)
        repo == getRepoConfig(c)
    IN  [apiVersion |-> "",
         repositories |->
            [i \in 1..Len(deps) |-> repositoryEntry(deps[i], c.useOCI)]
            \o (IF repo.url # "" THEN << repositoryEntry(repo, c.useOCI) >>
                ELSE << >>)]

\* mutation: the registry is keyed by the OCI form of the url
buildRegistryConfigJSON_OciKey(c) ==
    LET repo == getRepoConfig(c)
    IN  [auths |-> IF repo.url # ""
                   THEN toString(replaceURLProtocol(URL(repo.url), "oci:")) :>
                            [Username |-> repo.username, Password |-> repo.password]
                   ELSE << >>]

\* deploy.buildRegistryConfigJSON: the document
buildRegistryConfigJSON(c) ==
    LET repo == getRepoConfig(c)
    IN  [auths |-> IF repo.url # ""
                   THEN repo.url :>
                            [Username |-> repo.username, Password |-> repo.password]
                   ELSE << >>]

repositoryConfigError(c) ==
    IF \/ \E i \in 1..Len(c.dependencies) :
             /\ is_defined(c.dependencies[i].url)
             /\ ~URL(c.dependencies[i].url).valid
       \/ c.repo # "" /\ ~URL(c.repo).valid
    THEN Err("TypeError", "Invalid URL")
    ELSE NoError

----------------------------------------------------------------------------
(* The inputs of the runs explored: slices of the input space, each varying *)
(* one group of inputs around a valid upgrade.                              *)

BaseInput ==
    [command |-> "upgrade", release |-> "my-linkerd", namespace |-> "",
     chart |-> "stable/linkerd", chartVersion |-> "", appVersion |-> "",
     repo |-> "", repoAlias |-> "", repoUsername |-> "", repoPassword |-> "",
     useOCI |-> "", values |-> "", valueFiles |-> RawEmpty,
     dependencies |-> RawEmpty, timeout |-> "", dryRun |-> "", atomic |-> "",
     force |-> "", kubeconfigPath |-> "", kubeconfigInline |-> "",
     secrets |-> RawEmpty, notification |-> "ok"]

Commands == { "", "upgrade", "delete", "push", "remove", "rollback", "DELETE" }
Usernames == { "", " ", "admin" }
Passwords == { "", " ", "123456" }
DependencyRepos ==
    [url : { "", DepURL }, alias : { "flink" },
     username : { "", "bob" }, password : { "", "hunter2" }]
\* the dependencies of the lists of several: one with credentials, one
\* without, one without a url
ListedRepos ==
    { [url |-> DepURL, alias |-> "flink", username |-> "bob",
       password |-> "hunter2"],
      [url |-> Dep2URL, alias |-> "zookeeper", username |-> "", password |-> ""],
      [url |-> "", alias |-> "nourl", username |-> "", password |-> ""] }
ValueFileNames == { "/ws/f1.yml", "/ws/f2.yml", "" }

\* command, required fields and primary credentials
ValidationInputs ==
    { [BaseInput EXCEPT !.command = c, !.release = r, !.chart = ch, !.repo = u,
                        !.repoUsername = un, !.repoPassword = pw] :
        c \in Commands, r \in { "", "my-linkerd" },
        ch \in { "", "stable/linkerd", "./mychart", "./missing" },
        u \in { "", RepoURL }, un \in Usernames, pw \in Passwords }

\* dependency repositories
DependencyInputs ==
    { [BaseInput EXCEPT !.command = c, !.chart = "./mychart", !.repo = u,
                        !.useOCI = oci, !.dependencies = d] :
        c \in { "upgrade", "delete", "push" }, u \in { "", RepoURL },
        oci \in { "", "false" },
        d \in { RawEmpty,
                RawObject(<< [key |-> "url", value |-> DepURL],
                             [key |-> "alias", value |-> "flink"] >>),
                RawObject(<< [key |-> "a", value |-> "b"] >>) } \cup
              { RawArray(<< r >>) : r \in DependencyRepos } }

\* lists of dependencies
DependencyListInputs ==
    { [BaseInput EXCEPT !.chart = "./mychart", !.repo = u, !.useOCI = oci,
                        !.dependencies = RawArray(xs)] :
        u \in { "", RepoURL }, oci \in { "", "false" },
        xs \in SeqsUpTo(ListedRepos, MaxDeps) }

\* flags of upgrade and delete
FlagInputs ==
    { [BaseInput EXCEPT !.command = c, !.namespace = ns, !.kubeconfigPath = kp,
                        !.kubeconfigInline = ki, !.dryRun = dry,
                        !.chartVersion = cv, !.timeout = t, !.atomic = at] :
        c \in { "upgrade", "delete" }, ns \in { "", "prod" },
        kp \in { "", "/ws/kubeconfig" }, ki \in { "", "apiVersion: v1" },
        dry \in { "", "true", "maybe" }, cv \in { "", "3.1.1" },
        t \in { "", "1m30s" }, at \in { "", "No", "false" } }

\* values and value files
ValueInputs ==
    { [BaseInput EXCEPT !.command = c, !.values = v, !.valueFiles = vf, !.repo = u] :
        c \in { "upgrade", "delete" }, v \in { "", "test: 123" },
        u \in { "", RepoURL },
        vf \in { RawEmpty, RawPlain("/ws/f3.yml"), RawPlain("/ws/absent.yml"),
                 RawScalar("123"), RawScalar("true"),
                 RawObject(<< [key |-> "a", value |-> "b"] >>) } \cup
               { RawArray(xs) : xs \in SeqsUpTo(ValueFileNames, MaxValueFiles) } }

\* push
PushInputs ==
    { [BaseInput EXCEPT !.command = "push", !.release = "", !.chart = ch,
                        !.chartVersion = cv, !.appVersion = av, !.repo = u,
                        !.useOCI = oci, !.force = f] :
        ch \in { "./mychart", "./mychart/Chart.yaml", "stable/linkerd" },
        cv \in { "", "3.1.1" }, av \in { "", "v3.1.1alpha" },
        u \in { "", RepoURL, OciRepoURL }, oci \in { "", "false" },
        f \in { "", "true" } }

\* what a status notification meets in this run: "ok" (github-token given,
\* deployment event, the API call succeeds), "noToken" (no github-token
\* input), "noDeployment" (no deployment in the event payload), "throws" (the
\* API call rejects)
Notifications == { "ok", "noToken", "noDeployment", "throws" }

\* status notification
NotificationInputs ==
    { [BaseInput EXCEPT !.command = c, !.release = r, !.chart = "./mychart",
                        !.repo = u, !.notification = n] :
        c \in { "", "upgrade", "delete", "push", "rollback" },
        r \in { "", "my-linkerd" }, u \in { "", RepoURL }, n \in Notifications }

\* a repository or dependency url that new URL() rejects
InvalidURLInputs ==
    { [BaseInput EXCEPT !.command = c, !.chart = "./mychart", !.repo = u,
                        !.dependencies = d] :
        c \in { "upgrade", "delete", "push" }, u \in { "", BadURL },
        d \in { RawEmpty,
                RawArray(<< [url |-> BadURL, alias |-> "flink",
                             username |-> "", password |-> ""] >>) } }

\* repository urls of other schemes
SchemeInputs ==
    { [BaseInput EXCEPT !.command = "push", !.release = "", !.chart = "./mychart",
                        !.repo = u, !.useOCI = oci] :
        u \in { HttpRepoURL, S3RepoURL }, oci \in { "", "false" } }

\* values, value files and dependencies together
NormalizationInputs ==
    { [BaseInput EXCEPT !.chart = "./mychart", !.values = v,
                        !.valueFiles = RawArray(<< "/ws/f1.yml", "" >>),
                        !.dependencies = RawArray(<< d >>)] :
        v \in { "", "test: 123" },
        d \in { r \in DependencyRepos : r.url = DepURL /\ r.username = "" } }

\* secrets next to repository and dependency credentials
SecretInputs ==
    { [BaseInput EXCEPT !.command = c, !.chart = "./mychart", !.repo = RepoURL,
                        !.repoUsername = "admin", !.repoPassword = "123456",
                        !.dependencies =
                            RawArray(<< [url |-> DepURL, alias |-> "flink",
                                         username |-> "bob",
                                         password |-> "hunter2"] >>),
                        !.secrets = sec, !.values = v] :
        c \in { "upgrade", "delete", "push" }, v \in { "", Template },
        sec \in { RawEmpty, RawPlain("s3cr3t"),
                  RawObject(<< [key |-> "token", value |-> "s3cr3t"] >>) } }

\* chart strings that are paths, remote references, both or neither
ClassificationInputs ==
    { [BaseInput EXCEPT !.command = c, !.chart = ch] :
        c \in { "upgrade", "delete" },
        ch \in { "charts/app", "stable/linkerd",
                 "https://example.com/charts/local",
                 "https://example.com/charts/app",
                 "./mychart", "./missing", "./notes.txt", "./bare" } }

Inputs ==
    ValidationInputs \cup DependencyInputs \cup DependencyListInputs
        \cup FlagInputs \cup ValueInputs
        \cup PushInputs \cup SchemeInputs \cup NotificationInputs
        \cup InvalidURLInputs \cup NormalizationInputs \cup SecretInputs
        \cup ClassificationInputs

----------------------------------------------------------------------------
(* The run *)

\* the second run has not reached its values file
OtherIdle == [stage |-> "idle", size |-> 0, text |-> ""]

\* no helm invocation is under way
NoCall == [args |-> << >>, cwd |-> ""]

NoConf == parseConfig([BaseInput EXCEPT !.command = "", !.release = "", !.chart = ""], {})

Init ==
    /\ input \in Inputs
    /\ conf = NoConf
    /\ pc = "parseConfig"
    /\ fs = InitFS
    /\ configs = NoConfigs
    /\ kubeconfigFile = ""
    /\ tmpSeq = 0
    /\ calls = << >>
    /\ statuses = << >>
    /\ promises = << >>
    /\ error = NoError
    /\ outcome = "running"
    /\ valuesDoc = ""
    /\ kubeconfigDoc = ""
    /\ tracked = {}
    /\ docs = InitDocs
    /\ other = OtherIdle
    /\ inflight = NoCall

\* mutation: the rejection of the API call is not caught
statusOutcome_Uncaught(notification) ==
    CASE notification = "ok" -> "sent"
      [] notification \in { "noToken", "noDeployment" } -> "skipped"
      [] OTHER -> "thrown"

\* deploy.status: how one notification attempt ends: the deployment status
\* is created, the attempt returns early without token or deployment, or the
\* error of the API call is caught and logged as a warning
statusOutcome(notification) ==
    CASE notification = "ok" -> "sent"
      [] notification \in { "noToken", "noDeployment" } -> "skipped"
      [] OTHER -> "warned"

\* deploy.status: one notification attempt
status(state) == statuses' = Append(statuses, state)

\* await status(...): the awaiting caller throws when the attempt rejects
statusThrows == statusOutcome(input.notification) = "thrown"
NotificationError == Err("HttpError", "failed to create deployment status")

\* exec.helmExec: the invocation actionExec.exec makes, with its working
\* directory and whether helm exited zero
helmExec(helmArgs, cwd, ok) == [args |-> helmArgs, cwd |-> cwd, ok |-> ok]

ExecError == Err("Error", "The process 'helm' failed with exit code 1")

\* deploy.run, the call of parseConfig
ParseConfig ==
    /\ pc = "parseConfig"
    /\ UNCHANGED << valuesDoc, kubeconfigDoc, tracked, docs, other, inflight >>
    /\ IF parseConfigError(input, fs) # NoError
       THEN /\ error' = parseConfigError(input, fs)
            /\ pc' = "entrypointCatch"
            /\ UNCHANGED conf
       ELSE /\ conf' = parseConfig(input, fs)
            /\ pc' = "deployHelmChart"
            /\ UNCHANGED error
    /\ UNCHANGED << input, fs, configs, kubeconfigFile, tmpSeq, calls, statuses,
                    promises, outcome >>

\* mutation: the pending notification is not made
DeployHelmChart_NoPending ==
    /\ pc = "deployHelmChart"
    /\ IF conf.command = ""
       THEN /\ error' = MissingConfigError("command")
            /\ pc' = "entrypointCatch"
       ELSE /\ pc' = "buildHelmConfigFiles"
            /\ UNCHANGED error
    /\ UNCHANGED << input, conf, fs, configs, kubeconfigFile, tmpSeq, calls,
                    statuses, promises, outcome, valuesDoc, kubeconfigDoc,
                    tracked, docs, other, inflight >>

\* deploy.deployHelmChart up to the command check
DeployHelmChart ==
    /\ pc = "deployHelmChart"
    /\ UNCHANGED << valuesDoc, kubeconfigDoc, tracked, docs, other, inflight >>
    /\ status("pending")
    /\ IF statusThrows
       THEN /\ error' = NotificationError
            /\ pc' = "entrypointCatch"
       ELSE IF conf.command = ""
       THEN /\ error' = MissingConfigError("command")
            /\ pc' = "entrypointCatch"
       ELSE /\ pc' = "buildHelmConfigFiles"
            /\ UNCHANGED error
    /\ UNCHANGED << input, conf, fs, configs, kubeconfigFile, tmpSeq, calls,
                    promises, outcome >>

\* the error tmp.fileSync throws when it cannot create the file
TmpError(file) ==
    Err("Error", "EACCES: permission denied, open '" \o file \o "'")

\* deploy.buildHelmConfigFiles and the kubeconfig tmp file of deployHelmChart
\* (acquired is the number of tmp.fileSync calls that succeed)
BuildHelmConfigFiles ==
    LET registry == tmpName(tmpSeq + 1, "registries.json")
        repository == tmpName(tmpSeq + 2, "repositories.yaml")
        kubeconfig == tmpName(tmpSeq + 3, "kubeconfig.yml")
    IN
    /\ pc = "buildHelmConfigFiles"
    /\ UNCHANGED << valuesDoc, kubeconfigDoc, other, inflight >>
    /\ IF pairedCredentialError(conf) # NoError
       THEN /\ error' = pairedCredentialError(conf)
            /\ pc' = "entrypointCatch"
            /\ UNCHANGED << fs, configs, kubeconfigFile, tmpSeq, tracked, docs >>
       ELSE \E acquired \in 0..3 :
            CASE acquired = 0 ->
                    /\ error' = TmpError(registry)
                    /\ pc' = "entrypointCatch"
                    /\ UNCHANGED << fs, configs, kubeconfigFile, tmpSeq, tracked, docs >>
              [] acquired >= 1 /\ repositoryConfigError(conf) # NoError ->
                    /\ error' = repositoryConfigError(conf)
                    /\ pc' = "entrypointCatch"
                    /\ fs' = fs \cup { registry }
                    /\ tracked' = tracked \cup { registry }
                    /\ docs' = docs @@ (registry :> buildRegistryConfigJSON(conf))
                    /\ tmpSeq' = tmpSeq + 1
                    /\ UNCHANGED << configs, kubeconfigFile >>
              [] acquired = 1 /\ repositoryConfigError(conf) = NoError ->
                    /\ error' = TmpError(repository)
                    /\ pc' = "entrypointCatch"
                    /\ fs' = fs \cup { registry }
                    /\ tracked' = tracked \cup { registry }
                    /\ docs' = docs @@ (registry :> buildRegistryConfigJSON(conf))
                    /\ tmpSeq' = tmpSeq + 1
                    /\ UNCHANGED << configs, kubeconfigFile >>
              [] acquired = 2 /\ repositoryConfigError(conf) = NoError ->
                    /\ error' = TmpError(kubeconfig)
                    /\ pc' = "entrypointCatch"
                    /\ fs' = fs \cup { registry, repository }
                    /\ tracked' = tracked \cup { registry, repository }
                    /\ docs' = docs @@ (registry :> buildRegistryConfigJSON(conf))
                                 @@ (repository :> buildRepositoryConfigYaml(conf))
                    /\ configs' = [repositoryConfigFile |-> repository,
                                   registryConfigFile |-> registry]
                    /\ tmpSeq' = tmpSeq + 2
                    /\ UNCHANGED kubeconfigFile
              [] acquired = 3 /\ repositoryConfigError(conf) = NoError ->
                    /\ fs' = fs \cup { registry, repository, kubeconfig }
                    /\ tracked' = tracked \cup { registry, repository, kubeconfig }
                    /\ docs' = docs @@ (registry :> buildRegistryConfigJSON(conf))
                                 @@ (repository :> buildRepositoryConfigYaml(conf))
                    /\ configs' = [repositoryConfigFile |-> repository,
                                   registryConfigFile |-> registry]
                    /\ kubeconfigFile' = kubeconfig
                    /\ tmpSeq' = tmpSeq + 3
                    /\ pc' = "version"
                    /\ UNCHANGED error
    /\ UNCHANGED << input, conf, calls, statuses, promises, outcome >>

\* mutation: both flags carry the path of the registry file
credentialFlags_SameFile(cfgs) ==
    << "--registry-config", cfgs.registryConfigFile,
       "--repository-config", cfgs.registryConfigFile >>

\* mutation: the credentials of the repository are passed as arguments
credentialFlags_Inline(cfgs) ==
    << "--username", conf.repoUsername, "--password", conf.repoPassword >>

\* the two flags that inject the credential artifacts into an invocation
credentialFlags(cfgs) ==
    << "--registry-config", cfgs.registryConfigFile,
       "--repository-config", cfgs.repositoryConfigFile >>

\* deploy.deployHelmChart: the condition of the repo update
needsRepoUpdate(c) == is_defined(c.repo) \/ Len(c.dependencies) > 0

\* deploy.deployHelmChart: path.join(DEPLOY_ACTION_DATA_HOME ?? '.', 'values.yml')
valuesFile == "values.yml"

\* a helm invocation failed inside the try block of deployHelmChart
\* mutation: a failed invocation is ignored and the run goes on
ExecFailed_Ignored ==
    /\ UNCHANGED error
    /\ pc' = "prepare"

ExecFailed ==
    /\ error' = ExecError
    /\ pc' = "catch"

\* deploy.deployHelmChart: helmExec(['version'])
HelmVersion ==
    /\ pc = "version"
    /\ UNCHANGED << valuesDoc, kubeconfigDoc, tracked, docs, other, inflight >>
    /\ \E ok \in BOOLEAN :
         /\ calls' = Append(calls,
                helmExec(<< "version" >>, "", ok))
         /\ IF ok
            THEN /\ pc' = IF needsRepoUpdate(conf) THEN "repoUpdate" ELSE "prepare"
                 /\ UNCHANGED error
            ELSE ExecFailed
    /\ UNCHANGED << input, conf, fs, configs, kubeconfigFile, tmpSeq, statuses,
                    promises, outcome >>

\* deploy.deployHelmChart: helmExec(['repo', 'update', ...])
HelmRepoUpdate ==
    /\ pc = "repoUpdate"
    /\ UNCHANGED << valuesDoc, kubeconfigDoc, tracked, docs, other, inflight >>
    /\ \E ok \in BOOLEAN :
         /\ calls' = Append(calls,
                helmExec(<< "repo", "update" >> \o credentialFlags(configs), "", ok))
         /\ IF ok
            THEN /\ pc' = "prepare"
                 /\ UNCHANGED error
            ELSE ExecFailed
    /\ UNCHANGED << input, conf, fs, configs, kubeconfigFile, tmpSeq, statuses,
                    promises, outcome >>

\* the elements of a list
Range(xs) == { xs[i] : i \in 1..Len(xs) }

\* the first n characters of a text
Prefix(text, n) == SubSeq(text, 1, IF n < Len(text) THEN n ELSE Len(text))

\* what a file that holds 'content' holds after 'text' is written at its
\* start: the write replaces as many characters as it has
Overlay(text, content) ==
    IF Len(text) >= Len(content) THEN text
    ELSE text \o SubSeq(content, Len(text) + 1, Len(content))

\* the promise files.map makes for one element of the list of files: it is
\* about to open the file for reading
Promise(file) == [file |-> file, stage |-> "open", size |-> 0, text |-> ""]

\* deploy.renderFiles: one promise for each element of the list, a file that
\* is listed twice has two
renderFiles(files) == [i \in 1..Len(files) |-> Promise(files[i])]

\* deploy.deployHelmChart: fs.promises.writeFile of the values file opens it
\* for writing, which creates it or empties it
OpenValuesFile ==
    /\ pc = "prepare"
    /\ fs' = IF Len(conf.values) > 0 THEN fs \cup { Absolute(valuesFile) } ELSE fs
    /\ valuesDoc' = IF Len(conf.values) > 0 THEN "" ELSE valuesDoc
    /\ pc' = "writeValues"
    /\ UNCHANGED << input, conf, configs, kubeconfigFile, kubeconfigDoc, tmpSeq,
                    tracked, docs, calls, statuses, error, outcome, promises,
                    other, inflight >>

\* mutation: a supplied kubeconfig-path wins over the inline kubeconfig
PrepareValues_PathWins ==
    /\ pc = "writeValues"
    /\ valuesDoc' = IF Len(conf.values) > 0
                    THEN Overlay(conf.values, valuesDoc)
                    ELSE valuesDoc
    /\ kubeconfigDoc' = IF conf.kubeconfigInline # ""
                        THEN conf.kubeconfigInline
                        ELSE kubeconfigDoc
    /\ conf' = IF conf.kubeconfigInline # "" /\ conf.kubeconfigPath = ""
               THEN [conf EXCEPT !.kubeconfigPath = kubeconfigFile]
               ELSE conf
    /\ promises' = renderFiles(conf.valueFiles \o << valuesFile >>)
    /\ pc' = "dispatch"
    /\ UNCHANGED << input, fs, configs, kubeconfigFile, tmpSeq, tracked, docs,
                    calls, statuses, error, outcome, other, inflight >>

\* deploy.deployHelmChart: the write of the values to the opened values
\* file, the inline kubeconfig and the start of renderFiles, which returns
\* without awaiting its promises
PrepareValues ==
    /\ pc = "writeValues"
    /\ valuesDoc' = IF Len(conf.values) > 0
                    THEN Overlay(conf.values, valuesDoc)
                    ELSE valuesDoc
    /\ kubeconfigDoc' = IF conf.kubeconfigInline # ""
                        THEN conf.kubeconfigInline
                        ELSE kubeconfigDoc
    /\ conf' = IF conf.kubeconfigInline # ""
               THEN [conf EXCEPT !.kubeconfigPath = kubeconfigFile]
               ELSE conf
    /\ promises' = renderFiles(conf.valueFiles \o << valuesFile >>)
    /\ pc' = "dispatch"
    /\ UNCHANGED << input, fs, configs, kubeconfigFile, tmpSeq, tracked, docs,
                    calls, statuses, error, outcome, other, inflight >>

\* the postfix of the n-th tmp file of a run
tmpPostfix(n) ==
    CASE n = 1 -> "registries.json"
      [] n = 2 -> "repositories.yaml"
      [] OTHER -> "kubeconfig.yml"

\* Mustache lookup of 'secrets.<key>': the value of the key when the secrets
\* are an object that has it, nothing otherwise (a string has no such key)
secretOf(secrets, key) ==
    IF secrets.parsed /\ \E i \in 1..Len(secrets.fields) : secrets.fields[i].key = key
    THEN (CHOOSE f \in Range(secrets.fields) : f.key = key).value
    ELSE ""

\* the least position from 'from' on at which the pattern stands in the
\* text, 0 when there is none
RECURSIVE IndexOf(_, _, _)
IndexOf(text, pattern, from) ==
    IF from + Len(pattern) > Len(text) + 1 THEN 0
    ELSE IF SubSeq(text, from, from + Len(pattern) - 1) = pattern THEN from
    ELSE IndexOf(text, pattern, from + 1)

IsWhite(c) == c \in { " ", "\t", "\n", "\r" }

\* the text without the white space at its start
RECURSIVE trimStart(_)
trimStart(text) ==
    IF text # "" /\ IsWhite(SubSeq(text, 1, 1))
    THEN trimStart(SubSeq(text, 2, Len(text)))
    ELSE text

\* the text without the white space at its end
RECURSIVE trimEnd(_)
trimEnd(text) ==
    IF text # "" /\ IsWhite(SubSeq(text, Len(text), Len(text)))
    THEN trimEnd(SubSeq(text, 1, Len(text) - 1))
    ELSE text

\* mustache.escapeHtml: the characters & < > " ' / = become entities (so
\* does the grave accent, which no text of the model holds)
RECURSIVE escapeHtml(_)
escapeHtml(text) ==
    IF text = "" THEN ""
    ELSE LET c == SubSeq(text, 1, 1)
             e == CASE c = "&" -> "&amp;"
                    [] c = "<" -> "&lt;"
                    [] c = ">" -> "&gt;"
                    [] c = "\"" -> "&quot;"
                    [] c = "'" -> "&#39;"
                    [] c = "/" -> "&#x2F;"
                    [] c = "=" -> "&#x3D;"
                    [] OTHER -> c
         IN  e \o escapeHtml(SubSeq(text, 2, Len(text)))

\* Mustache lookup of a tag's name in { secrets, deployment }: the secret of
\* the name 'secrets.<key>', nothing for a name that is not there
lookup(name, secrets) ==
    IF Prefix(name, 8) = "secrets."
    THEN secretOf(secrets, SubSeq(name, 9, Len(name)))
    ELSE ""

\* mustache.parseTemplate: an opening tag that no closing tag follows
RECURSIVE UnclosedTag(_)
UnclosedTag(content) ==
    LET open == IndexOf(content, "${{", 1)
        close == IndexOf(content, "}}", open + 3)
    IN  IF open = 0 THEN FALSE
        ELSE IF close = 0 THEN TRUE
        ELSE UnclosedTag(SubSeq(content, close + 2, Len(content)))

\* the error Mustache.render throws for a text, if any: the scanner is at
\* the end of the text when it finds that a tag is not closed
MustacheError(content) ==
    IF UnclosedTag(content)
    THEN Err("Error", "Unclosed tag at " \o ToString(Len(content)))
    ELSE NoError

\* Mustache.render(content, data, {}, ['${{', '}}']): the text with each tag
\* replaced by the escaped value of its name; a text without tags is
\* rendered to itself
RECURSIVE MustacheRender(_, _)
MustacheRender(content, secrets) ==
    LET open == IndexOf(content, "${{", 1)
        close == IndexOf(content, "}}", open + 3)
        name == trimEnd(trimStart(SubSeq(content, open + 3, close - 1)))
    IN  IF open = 0 \/ close = 0 THEN content
        ELSE SubSeq(content, 1, open - 1) \o escapeHtml(lookup(name, secrets))
             \o MustacheRender(SubSeq(content, close + 2, Len(content)), secrets)

\* the text of a file handed to the renderer
Content(file) == IF file = valuesFile THEN valuesDoc ELSE docs[file]

\* fs.promises.readFile on an open file: it reads as many characters as
\* fstat reported when the file was opened, or to the end of the file when
\* fstat reported none
ReadText(size, content) == IF size = 0 THEN content ELSE Prefix(content, size)

\* the promises without the one that settled
Settled(i) == [j \in DOMAIN promises \ { i } |-> promises[j]]

\* the promises with one of them a stage further
Advance(i, stage, size, text) ==
    [promises EXCEPT ![i] = [file |-> @.file, stage |-> stage, size |-> size,
                             text |-> text]]

\* the error fs.promises.readFile rejects with for a file that is not there
RenderError(file) ==
    Err("Error", "ENOENT: no such file or directory, open '" \o file \o "'")

\* the error one promise of renderFiles rejects with at its next step, if
\* any: the file to open is not there, or the text read does not render
RejectionOf(i) ==
    LET p == promises[i]
    IN  IF p.stage = "open" /\ ~pathExists(p.file, fs) THEN RenderError(p.file)
        ELSE IF p.stage = "read"
        THEN MustacheError(ReadText(p.size, Content(p.file)))
        ELSE NoError

\* deploy.renderFiles: readFile opens one file and fstat reports its size
RenderFileOpened(i) ==
    /\ promises[i].stage = "open"
    /\ pathExists(promises[i].file, fs)
    /\ promises' = Advance(i, "read", Len(Content(promises[i].file)), "")
    /\ UNCHANGED << input, conf, pc, fs, configs, kubeconfigFile, tmpSeq, calls,
                    statuses, error, outcome, valuesDoc, kubeconfigDoc, tracked,
                    docs, other, inflight >>

\* deploy.renderFiles: one file's read settles; the text read is rendered
\* and the write of the rendered text is started
RenderFile(i) ==
    /\ promises[i].stage = "read"
    /\ RejectionOf(i) = NoError
    /\ promises' = Advance(i, "truncate", 0,
                           MustacheRender(ReadText(promises[i].size,
                                                   Content(promises[i].file)),
                                          conf.secrets))
    /\ UNCHANGED << input, conf, pc, fs, configs, kubeconfigFile, tmpSeq, calls,
                    statuses, error, outcome, valuesDoc, kubeconfigDoc, tracked,
                    docs, other, inflight >>

\* deploy.renderFiles: writeFile opens one file for writing, which creates
\* it or empties it
RenderFileTruncated(i) ==
    /\ promises[i].stage = "truncate"
    /\ fs' = fs \cup { Absolute(promises[i].file) }
    /\ IF promises[i].file = valuesFile
       THEN /\ valuesDoc' = ""
            /\ UNCHANGED docs
       ELSE /\ docs' = (promises[i].file :> "") @@ docs
            /\ UNCHANGED valuesDoc
    /\ promises' = Advance(i, "write", 0, promises[i].text)
    /\ UNCHANGED << input, conf, pc, configs, kubeconfigFile, tmpSeq, calls,
                    statuses, error, outcome, kubeconfigDoc, tracked, other,
                    inflight >>

\* deploy.renderFiles: the rendered text of one promise is written at the
\* start of the file it emptied, over whatever the file holds by then, and
\* the promise settles
RenderFileWritten(i) ==
    /\ promises[i].stage = "write"
    /\ IF promises[i].file = valuesFile
       THEN /\ valuesDoc' = Overlay(promises[i].text, valuesDoc)
            /\ UNCHANGED docs
       ELSE /\ docs' = (promises[i].file :>
                            Overlay(promises[i].text, docs[promises[i].file]))
                       @@ docs
            /\ UNCHANGED valuesDoc
    /\ promises' = Settled(i)
    /\ UNCHANGED << input, conf, pc, fs, configs, kubeconfigFile, tmpSeq, calls,
                    statuses, error, outcome, kubeconfigDoc, tracked, other,
                    inflight >>

\* deploy.renderFiles: one promise rejects.  Promise.all(promises) is
\* neither awaited nor returned, so nothing handles the rejection; a runtime
\* that only warns about unhandled rejections lets the run go on
RenderFileRejected(i) ==
    /\ RejectionOf(i) # NoError
    /\ promises' = Settled(i)
    /\ UNCHANGED << input, conf, pc, fs, configs, kubeconfigFile, tmpSeq, calls,
                    statuses, error, outcome, valuesDoc, kubeconfigDoc, tracked,
                    docs, other, inflight >>

\* deploy.renderFiles: one promise rejects and the runtime ends the process
\* on the unhandled rejection, wherever the run is: exit code 1, no catch
\* block runs, tmp removes its files on exit; a helm invocation under way
\* gets no answer, and a file that a write has emptied and not yet written
\* stays empty
UnhandledRejectionExit(i) ==
    /\ RejectionOf(i) # NoError
    /\ promises' = << >>
    /\ error' = RejectionOf(i)
    /\ outcome' = "failure"
    /\ fs' = fs \ tracked
    /\ tracked' = {}
    /\ pc' = "exited"
    /\ UNCHANGED << input, conf, configs, kubeconfigFile, tmpSeq, calls, statuses,
                    valuesDoc, kubeconfigDoc, docs, other, inflight >>

\* deploy.helmDelete up to the invocation of helm, which is awaited
HelmDelete ==
    LET namespace == IF conf.namespace = "" THEN "default" ELSE conf.namespace
        args == IF conf.kubeconfigPath # ""
                THEN << "--kubeconfig", conf.kubeconfigPath >> ELSE << >>
    IN
    /\ pc = "dispatch" /\ inflight = NoCall
    /\ conf.command = "delete"
    /\ UNCHANGED << valuesDoc, kubeconfigDoc, tracked, docs, other >>
    /\ IF conf.release = ""
       THEN /\ error' = MissingConfigError("release")
            /\ pc' = "catch"
            /\ UNCHANGED << conf, inflight >>
       ELSE /\ conf' = [conf EXCEPT !.namespace = namespace]
            /\ inflight' = [args |-> << "delete", "-n", namespace >> \o args
                                        \o << conf.release >>,
                            cwd |-> ""]
            /\ UNCHANGED << pc, error >>
    /\ UNCHANGED << input, fs, configs, kubeconfigFile, tmpSeq, promises, calls,
                    statuses, outcome >>

\* mutation: a delete reports 'success' instead of 'inactive'
HelmDeleteReturned_ReportsSuccess ==
    /\ pc = "dispatch" /\ inflight # NoCall
    /\ conf.command = "delete"
    /\ UNCHANGED << valuesDoc, kubeconfigDoc, tracked, docs, other >>
    /\ inflight' = NoCall
    /\ \E ok \in BOOLEAN :
         /\ calls' = Append(calls, helmExec(inflight.args, inflight.cwd, ok))
         /\ IF ok
            THEN /\ status("success")
                 /\ IF statusThrows
                    THEN /\ error' = NotificationError
                         /\ pc' = "catch"
                         /\ UNCHANGED outcome
                    ELSE /\ pc' = "done"
                         /\ outcome' = "success"
                         /\ UNCHANGED error
            ELSE /\ ExecFailed
                 /\ UNCHANGED << statuses, outcome >>
    /\ UNCHANGED << input, conf, fs, configs, kubeconfigFile, tmpSeq, promises >>

\* deploy.helmDelete: the invocation returns; status('inactive') follows a
\* zero exit
HelmDeleteReturned ==
    /\ pc = "dispatch" /\ inflight # NoCall
    /\ conf.command = "delete"
    /\ UNCHANGED << valuesDoc, kubeconfigDoc, tracked, docs, other >>
    /\ inflight' = NoCall
    /\ \E ok \in BOOLEAN :
         /\ calls' = Append(calls, helmExec(inflight.args, inflight.cwd, ok))
         /\ IF ok
            THEN /\ status("inactive")
                 /\ IF statusThrows
                    THEN /\ error' = NotificationError
                         /\ pc' = "catch"
                         /\ UNCHANGED outcome
                    ELSE /\ pc' = "done"
                         /\ outcome' = "success"
                         /\ UNCHANGED error
            ELSE /\ ExecFailed
                 /\ UNCHANGED << statuses, outcome >>
    /\ UNCHANGED << input, conf, fs, configs, kubeconfigFile, tmpSeq, promises >>

\* deploy.helmUpgrade: one --values flag per value file, in listed order
RECURSIVE valueFileArgs(_)
valueFileArgs(files) ==
    IF files = << >> THEN << >>
    ELSE << "--values", Head(files) >> \o valueFileArgs(Tail(files))

\* mutation: --timeout is appended before --version
upgradeArgs_TimeoutFirst(c, vf) ==
    (IF c.namespace # "" THEN << "-n", c.namespace >> ELSE << >>)
    \o (IF c.kubeconfigPath # "" THEN << "--kubeconfig", c.kubeconfigPath >> ELSE << >>)
    \o (IF c.dry THEN << "--dry-run" >> ELSE << >>)
    \o (IF c.timeout # "" THEN << "--timeout", c.timeout >> ELSE << >>)
    \o (IF c.chartVersion # "" THEN << "--version", c.chartVersion >> ELSE << >>)
    \o (IF c.atomic THEN << "--atomic" >> ELSE << >>)
    \o valueFileArgs(c.valueFiles)
    \o (IF Len(c.values) > 0 THEN << "--values", vf >> ELSE << >>)

\* mutation: the inline values file is passed before the value files
upgradeArgs_InlineFirst(c, vf) ==
    (IF c.namespace # "" THEN << "-n", c.namespace >> ELSE << >>)
    \o (IF c.kubeconfigPath # "" THEN << "--kubeconfig", c.kubeconfigPath >> ELSE << >>)
    \o (IF c.dry THEN << "--dry-run" >> ELSE << >>)
    \o (IF c.chartVersion # "" THEN << "--version", c.chartVersion >> ELSE << >>)
    \o (IF c.timeout # "" THEN << "--timeout", c.timeout >> ELSE << >>)
    \o (IF c.atomic THEN << "--atomic" >> ELSE << >>)
    \o (IF Len(c.values) > 0 THEN << "--values", vf >> ELSE << >>)
    \o valueFileArgs(c.valueFiles)

\* deploy.helmUpgrade: the optional arguments
upgradeArgs(c, vf) ==
    (IF c.namespace # "" THEN << "-n", c.namespace >> ELSE << >>)
    \o (IF c.kubeconfigPath # "" THEN << "--kubeconfig", c.kubeconfigPath >> ELSE << >>)
    \o (IF c.dry THEN << "--dry-run" >> ELSE << >>)
    \o (IF c.chartVersion # "" THEN << "--version", c.chartVersion >> ELSE << >>)
    \o (IF c.timeout # "" THEN << "--timeout", c.timeout >> ELSE << >>)
    \o (IF c.atomic THEN << "--atomic" >> ELSE << >>)
    \o valueFileArgs(c.valueFiles)
    \o (IF Len(c.values) > 0 THEN << "--values", vf >> ELSE << >>)

\* deploy.helmUpgrade up to the invocation of helm, which is awaited
HelmUpgrade ==
    /\ pc = "dispatch" /\ inflight = NoCall
    /\ conf.command = "upgrade"
    /\ UNCHANGED << valuesDoc, kubeconfigDoc, tracked, docs, other >>
    /\ IF conf.release = "" \/ conf.chart = ""
       THEN /\ error' = IF conf.release = "" THEN MissingConfigError("release")
                         ELSE MissingConfigError("chart")
            /\ pc' = "catch"
            /\ UNCHANGED inflight
       ELSE /\ inflight' = [args |-> << "upgrade", conf.release, conf.chart,
                                        "--install", "--wait" >>
                                        \o credentialFlags(configs)
                                        \o upgradeArgs(conf, valuesFile),
                            cwd |-> ""]
            /\ UNCHANGED << pc, error >>
    /\ UNCHANGED << input, conf, fs, configs, kubeconfigFile, tmpSeq, promises,
                    calls, statuses, outcome >>

\* deploy.helmUpgrade: the invocation returns; status('success') follows a
\* zero exit
HelmUpgradeReturned ==
    /\ pc = "dispatch" /\ inflight # NoCall
    /\ conf.command = "upgrade"
    /\ UNCHANGED << valuesDoc, kubeconfigDoc, tracked, docs, other >>
    /\ inflight' = NoCall
    /\ \E ok \in BOOLEAN :
         /\ calls' = Append(calls, helmExec(inflight.args, inflight.cwd, ok))
         /\ IF ok
            THEN /\ status("success")
                 /\ IF statusThrows
                    THEN /\ error' = NotificationError
                         /\ pc' = "catch"
                         /\ UNCHANGED outcome
                    ELSE /\ pc' = "done"
                         /\ outcome' = "success"
                         /\ UNCHANGED error
            ELSE /\ ExecFailed
                 /\ UNCHANGED << statuses, outcome >>
    /\ UNCHANGED << input, conf, fs, configs, kubeconfigFile, tmpSeq, promises >>

\* deploy.deployHelmChart: the default branch of the switch
UnknownCommand ==
    /\ pc = "dispatch"
    /\ UNCHANGED << valuesDoc, kubeconfigDoc, tracked, docs, other, inflight >>
    /\ conf.command \notin { "delete", "push", "upgrade" }
    /\ error' = Err("Error", "unkown helm command: " \o conf.command)
    /\ pc' = "catch"
    /\ UNCHANGED << input, conf, fs, configs, kubeconfigFile, tmpSeq, calls,
                    statuses, promises, outcome >>

\* deploy.helmPush: the checks made before the first invocation
helmPushError(c, disk) ==
    IF c.chart = "" THEN MissingConfigError("chart")
    ELSE IF ~pathExists(c.chart, disk) THEN Err("Error", c.chart \o " does not exist")
    ELSE IF ~c.chartMetadata.defined
    THEN Err("AssertionError", "have chart metadata from Chart.yaml")
    ELSE IF c.chartMetadata.name = ""
    THEN Err("AssertionError", "have chart name from Chart.yaml")
    ELSE IF c.chartMetadata.version = ""
    THEN Err("AssertionError", "have chart version from Chart.yaml")
    ELSE IF c.repo = "" THEN MissingConfigError("repo")
    ELSE NoError

\* helm package run in the chart directory: the archive it writes there,
\* named after the manifest name and the version packaged
helmPackageOutput(c) ==
    c.chart \o "/" \o c.chartMetadata.name \o "-"
        \o (IF c.chartVersion # "" THEN c.chartVersion ELSE c.chartMetadata.version)
        \o ".tgz"

\* mutation: the expected package path ignores the chart-version override
packaged_ManifestVersion(c) ==
    c.chart \o "/" \o c.chartMetadata.name \o "-" \o c.chartMetadata.version \o ".tgz"

\* deploy.helmPush: the path of the built package
packaged(c) ==
    c.chart \o "/" \o c.chartMetadata.name \o "-"
        \o (IF c.chartVersion # "" THEN c.chartVersion ELSE c.chartMetadata.version)
        \o ".tgz"

\* deploy.helmPush: the arguments of the package step
packageArgs(c) ==
    (IF c.chartVersion # "" THEN << "--version", c.chartVersion >> ELSE << >>)
    \o (IF c.appVersion # "" THEN << "--app-version", c.appVersion >> ELSE << >>)

\* deploy.helmPush: the working directory of the package and push steps
pushCwd(c, disk) == IF pathExists(c.chart, disk) THEN c.chart ELSE ""

\* deploy.helmPush: the repository url the package is pushed to
pushURL(c) ==
    toString(IF c.useOCI THEN replaceURLProtocol(URL(c.repo), "oci:") ELSE URL(c.repo))

\* deploy.helmPush: the checks and helmExec(['inspect', 'chart', ...])
HelmPushInspect ==
    /\ pc = "dispatch" /\ inflight = NoCall
    /\ conf.command = "push"
    /\ UNCHANGED << valuesDoc, kubeconfigDoc, tracked, docs, other >>
    /\ IF helmPushError(conf, fs) # NoError
       THEN /\ error' = helmPushError(conf, fs)
            /\ pc' = "catch"
            /\ UNCHANGED inflight
       ELSE /\ inflight' = [args |-> << "inspect", "chart", conf.chart >>, cwd |-> ""]
            /\ UNCHANGED << pc, error >>
    /\ UNCHANGED << input, conf, fs, configs, kubeconfigFile, tmpSeq, statuses,
                    promises, outcome, calls >>

\* deploy.helmPush: the inspect invocation returns
HelmPushInspectReturned ==
    /\ pc = "dispatch" /\ inflight # NoCall
    /\ conf.command = "push"
    /\ UNCHANGED << valuesDoc, kubeconfigDoc, tracked, docs, other >>
    /\ inflight' = NoCall
    /\ \E ok \in BOOLEAN :
         /\ calls' = Append(calls, helmExec(inflight.args, inflight.cwd, ok))
         /\ IF ok
            THEN /\ pc' = "dependencyUpdate"
                 /\ UNCHANGED error
            ELSE ExecFailed
    /\ UNCHANGED << input, conf, fs, configs, kubeconfigFile, tmpSeq, statuses,
                    promises, outcome >>

\* deploy.helmPush: helmExec(['dependency', 'update', ...])
HelmPushDependencyUpdate ==
    /\ pc = "dependencyUpdate" /\ inflight = NoCall
    /\ inflight' = [args |-> << "dependency", "update", conf.chart >>
                                \o credentialFlags(configs),
                    cwd |-> ""]
    /\ UNCHANGED << input, conf, pc, fs, configs, kubeconfigFile, tmpSeq, statuses,
                    promises, outcome, calls, error, valuesDoc, kubeconfigDoc,
                    tracked, docs, other >>

\* deploy.helmPush: the dependency update invocation returns
HelmPushDependencyUpdateReturned ==
    /\ pc = "dependencyUpdate" /\ inflight # NoCall
    /\ UNCHANGED << valuesDoc, kubeconfigDoc, tracked, docs, other >>
    /\ inflight' = NoCall
    /\ \E ok \in BOOLEAN :
         /\ calls' = Append(calls, helmExec(inflight.args, inflight.cwd, ok))
         /\ IF ok
            THEN /\ pc' = "package"
                 /\ UNCHANGED error
            ELSE ExecFailed
    /\ UNCHANGED << input, conf, fs, configs, kubeconfigFile, tmpSeq, statuses,
                    promises, outcome >>

\* deploy.helmPush: helmExec(['package', ...]) is invoked
HelmPushPackage ==
    /\ pc = "package" /\ inflight = NoCall
    /\ inflight' = [args |-> << "package" >> \o packageArgs(conf) \o << conf.chart >>,
                    cwd |-> pushCwd(conf, fs)]
    /\ UNCHANGED << input, conf, pc, fs, configs, kubeconfigFile, tmpSeq, statuses,
                    promises, outcome, calls, error, valuesDoc, kubeconfigDoc,
                    tracked, docs, other >>

\* deploy.helmPush: the package invocation returns and the built package is
\* looked for; helm may or may not leave the archive on disk
HelmPushPackageReturned ==
    /\ pc = "package" /\ inflight # NoCall
    /\ UNCHANGED << valuesDoc, kubeconfigDoc, tracked, docs, other >>
    /\ inflight' = NoCall
    /\ \E ok \in BOOLEAN, built \in BOOLEAN :
         /\ calls' = Append(calls, helmExec(inflight.args, inflight.cwd, ok))
         /\ IF ok
            THEN /\ fs' = IF built THEN fs \cup { helmPackageOutput(conf) } ELSE fs
                 /\ IF pathExists(packaged(conf), fs')
                    THEN /\ pc' = "push"
                         /\ UNCHANGED error
                    ELSE /\ error' = Err("Error", "Could not find packaged chart.Expected "
                                                     \o packaged(conf))
                         /\ pc' = "catch"
            ELSE /\ ExecFailed
                 /\ UNCHANGED fs
    /\ UNCHANGED << input, conf, configs, kubeconfigFile, tmpSeq, statuses,
                    promises, outcome >>

\* deploy.helmPush: helmExec(['push', ...]) is invoked
HelmPushPublish ==
    /\ pc = "push" /\ inflight = NoCall
    /\ inflight' = [args |-> << "push", packaged(conf), pushURL(conf) >>
                                \o credentialFlags(configs),
                    cwd |-> pushCwd(conf, fs)]
    /\ UNCHANGED << input, conf, pc, fs, configs, kubeconfigFile, tmpSeq, statuses,
                    promises, outcome, calls, error, valuesDoc, kubeconfigDoc,
                    tracked, docs, other >>

\* deploy.helmPush: the push invocation returns; the run returns without a
\* status
HelmPushPublishReturned ==
    /\ pc = "push" /\ inflight # NoCall
    /\ UNCHANGED << valuesDoc, kubeconfigDoc, tracked, docs, other >>
    /\ inflight' = NoCall
    /\ \E ok \in BOOLEAN :
         /\ calls' = Append(calls, helmExec(inflight.args, inflight.cwd, ok))
         /\ IF ok
            THEN /\ pc' = "done"
                 /\ outcome' = "success"
                 /\ UNCHANGED error
            ELSE /\ ExecFailed
                 /\ UNCHANGED outcome
    /\ UNCHANGED << input, conf, fs, configs, kubeconfigFile, tmpSeq, statuses,
                    promises >>

\* the error removeCallback() throws when the unlink of a tmp file fails
RemoveError(file) ==
    Err("Error", "EPERM: operation not permitted, unlink '" \o file \o "'")

\* deploy.deployHelmChart: the catch block removes the three tmp files and
\* rethrows.  removeCallback() forgets the file and unlinks it; the three
\* calls are not guarded, so when the unlink of one throws (failing is its
\* position, 0 when none does) the calls after it and the rethrow are skipped
\* and the unlink error leaves the block
Catch ==
    LET order == << configs.repositoryConfigFile, configs.registryConfigFile,
                    kubeconfigFile >>
    IN
    /\ pc = "catch"
    /\ UNCHANGED << valuesDoc, kubeconfigDoc, docs, other, inflight >>
    /\ \E failing \in 0..3 :
         LET called == IF failing = 0 THEN 3 ELSE failing
             unlinked == IF failing = 0 THEN 3 ELSE failing - 1
         IN  /\ fs' = fs \ { order[k] : k \in 1..unlinked }
             /\ tracked' = tracked \ { order[k] : k \in 1..called }
             /\ error' = IF failing = 0 THEN error ELSE RemoveError(order[failing])
    /\ pc' = "entrypointCatch"
    /\ UNCHANGED << input, conf, configs, kubeconfigFile, tmpSeq, calls, statuses,
                    promises, outcome >>

\* mutation: only values whose class is Error itself count as errors
instanceofError_ExactClass(err) == err.type = "Error"

\* err instanceof Error: every value thrown in a run is an instance of Error
\* or of one of its subclasses; other values are not marked as a failure
instanceofError(err) ==
    err.type \in { "Error", "MissingConfigError", "TypeError", "AssertionError",
                   "FsError", "HttpError" }

\* main.entrypoint: the catch block marks the run failed and reports 'failure'
EntrypointCatch ==
    /\ pc = "entrypointCatch"
    /\ UNCHANGED << valuesDoc, kubeconfigDoc, tracked, docs, other, inflight >>
    /\ outcome' = IF instanceofError(error) THEN "failure" ELSE "success"
    /\ status("failure")
    /\ error' = IF statusThrows THEN NotificationError ELSE error
    /\ pc' = "done"
    /\ UNCHANGED << input, conf, fs, configs, kubeconfigFile, tmpSeq, calls,
                    promises >>

\* mutation: tmp has no exit hook, the files it handed out stay on disk
ProcessExit_NoCleanup ==
    /\ pc = "done"
    /\ promises = << >>
    /\ tracked' = {}
    /\ pc' = "exited"
    /\ UNCHANGED << input, conf, fs, configs, kubeconfigFile, tmpSeq, calls,
                    statuses, promises, error, outcome, valuesDoc, kubeconfigDoc,
                    docs, other, inflight >>

\* tmp.setGracefulCleanup(): when the process exits, tmp removes the files it
\* handed out that are still on disk.  The process exits once the pending
\* file operations have settled.
ProcessExit ==
    /\ pc = "done"
    /\ UNCHANGED << valuesDoc, kubeconfigDoc, docs, other, inflight >>
    /\ promises = << >>
    /\ fs' = fs \ tracked
    /\ tracked' = {}
    /\ pc' = "exited"
    /\ UNCHANGED << input, conf, configs, kubeconfigFile, tmpSeq, calls, statuses,
                    promises, error, outcome >>

Next ==
    \/ ParseConfig
    \/ DeployHelmChart
    \/ BuildHelmConfigFiles
    \/ HelmVersion
    \/ HelmRepoUpdate
    \/ OpenValuesFile
    \/ PrepareValues
    \/ \E i \in DOMAIN promises : RenderFileOpened(i)
    \/ \E i \in DOMAIN promises : RenderFile(i)
    \/ \E i \in DOMAIN promises : RenderFileTruncated(i)
    \/ \E i \in DOMAIN promises : RenderFileWritten(i)
    \/ \E i \in DOMAIN promises : RenderFileRejected(i)
    \/ \E i \in DOMAIN promises : UnhandledRejectionExit(i)
    \/ HelmDelete
    \/ HelmDeleteReturned
    \/ HelmUpgrade
    \/ HelmUpgradeReturned
    \/ UnknownCommand
    \/ HelmPushInspect
    \/ HelmPushInspectReturned
    \/ HelmPushDependencyUpdate
    \/ HelmPushDependencyUpdateReturned
    \/ HelmPushPackage
    \/ HelmPushPackageReturned
    \/ HelmPushPublish
    \/ HelmPushPublishReturned
    \/ Catch
    \/ EntrypointCatch
    \/ ProcessExit

Spec == Init /\ [][Next]_vars

\* the inline values of a second run of the action
OtherValues == "replicas: 9"

\* the secrets of the second run: it is given none
OtherSecrets == parseSecrets(RawEmpty)

\* the second run a step further with values.yml
OtherAt(stage, size, text) == [stage |-> stage, size |-> size, text |-> text]

\* deploy.deployHelmChart of a second run that executes in the same data
\* directory: writeFile of its values opens the same values.yml for writing,
\* which creates it or empties it
OtherRunOpenValuesFile ==
    /\ other.stage = "idle"
    /\ fs' = fs \cup { Absolute(valuesFile) }
    /\ valuesDoc' = ""
    /\ other' = OtherAt("values", 0, "")
    /\ UNCHANGED << input, conf, pc, configs, kubeconfigFile, kubeconfigDoc,
                    tmpSeq, tracked, docs, calls, statuses, promises, error,
                    outcome, inflight >>

\* deploy.deployHelmChart of the second run: its values are written at the
\* start of values.yml; its renderFiles starts
OtherRunPrepareValues ==
    /\ other.stage = "values"
    /\ valuesDoc' = Overlay(OtherValues, valuesDoc)
    /\ other' = OtherAt("open", 0, "")
    /\ UNCHANGED << input, conf, pc, fs, configs, kubeconfigFile, kubeconfigDoc,
                    tmpSeq, tracked, docs, calls, statuses, promises, error,
                    outcome, inflight >>

\* deploy.renderFiles of the second run: readFile opens values.yml and fstat
\* reports its size
OtherRunRenderFileOpened ==
    /\ other.stage = "open"
    /\ other' = OtherAt("read", Len(valuesDoc), "")
    /\ UNCHANGED << input, conf, pc, fs, configs, kubeconfigFile, kubeconfigDoc,
                    tmpSeq, tracked, docs, calls, statuses, promises, error,
                    outcome, valuesDoc, inflight >>

\* deploy.renderFiles of the second run: the read of values.yml settles and
\* the text read is rendered; the promise rejects when it does not render
OtherRunRenderFile ==
    /\ other.stage = "read"
    /\ other' = LET text == ReadText(other.size, valuesDoc)
                IN  IF MustacheError(text) # NoError THEN OtherAt("end", 0, "")
                    ELSE OtherAt("truncate", 0, MustacheRender(text, OtherSecrets))
    /\ UNCHANGED << input, conf, pc, fs, configs, kubeconfigFile, kubeconfigDoc,
                    tmpSeq, tracked, docs, calls, statuses, promises, error,
                    outcome, valuesDoc, inflight >>

\* deploy.renderFiles of the second run: writeFile opens values.yml for
\* writing, which empties it
OtherRunRenderFileTruncated ==
    /\ other.stage = "truncate"
    /\ fs' = fs \cup { Absolute(valuesFile) }
    /\ valuesDoc' = ""
    /\ other' = OtherAt("write", 0, other.text)
    /\ UNCHANGED << input, conf, pc, configs, kubeconfigFile, kubeconfigDoc,
                    tmpSeq, tracked, docs, calls, statuses, promises, error,
                    outcome, inflight >>

\* deploy.renderFiles of the second run: the rendered text is written at the
\* start of values.yml
OtherRunRenderFileWritten ==
    /\ other.stage = "write"
    /\ valuesDoc' = Overlay(other.text, valuesDoc)
    /\ other' = OtherAt("end", 0, "")
    /\ UNCHANGED << input, conf, pc, fs, configs, kubeconfigFile, kubeconfigDoc,
                    tmpSeq, tracked, docs, calls, statuses, promises, error,
                    outcome, inflight >>

NextConcurrent ==
    \/ Next
    \/ OtherRunOpenValuesFile
    \/ OtherRunPrepareValues
    \/ OtherRunRenderFileOpened
    \/ OtherRunRenderFile
    \/ OtherRunRenderFileTruncated
    \/ OtherRunRenderFileWritten

\* the inputs of the run that a second run is put next to: the slices in
\* which the values, the value files, the secrets and the command vary, with
\* at most one value file
ConcurrentInputs ==
    { i \in ValueInputs \cup SecretInputs \cup NotificationInputs :
        Len(parseValueFiles(i.valueFiles)) <= 1 }

ConcurrentInit == Init /\ input \in ConcurrentInputs

\* a run together with the steps of a second run in the same directory
ConcurrentSpec == ConcurrentInit /\ [][NextConcurrent]_vars

----------------------------------------------------------------------------
(* Vocabulary of the properties *)

\* the transient files the run has created
TransientFiles ==
    { configs.repositoryConfigFile, configs.registryConfigFile, kubeconfigFile }
        \ { "" }

Done == pc = "done"
Succeeded == pc = "done" /\ outcome = "success"
Failed == pc = "done" /\ outcome = "failure"

Command == toLowerCase(input.command)

\* the dependencies the input lists: the entries of the array, or the one
\* object the input is
InputDependencies ==
    IF input.dependencies.kind = "object"
    THEN << JSONObject(input.dependencies.items) >>
    ELSE input.dependencies.items

IsRepoUpdate(call) ==
    Len(call.args) >= 2 /\ call.args[1] = "repo" /\ call.args[2] = "update"

\* the invocations that touch a repository
IsRepoTouching(call) ==
    \/ IsRepoUpdate(call)
    \/ Len(call.args) >= 2 /\ call.args[1] = "dependency" /\ call.args[2] = "update"
    \/ call.args[1] = "push"
    \/ call.args[1] = "upgrade"

\* flag is followed by value somewhere in args
HasFlag(args, flag, value) ==
    \E i \in 1..(Len(args) - 1) : args[i] = flag /\ args[i + 1] = value

\* the values that follow each occurrence of flag in args, in order
RECURSIVE FlagValues(_, _)
FlagValues(args, flag) ==
    IF Len(args) < 2 THEN << >>
    ELSE IF Head(args) = flag
         THEN << args[2] >> \o FlagValues(Tail(Tail(args)), flag)
         ELSE FlagValues(Tail(args), flag)

RepoUpdateCalls == { i \in 1..Len(calls) : IsRepoUpdate(calls[i]) }
UpgradeCalls == { i \in 1..Len(calls) : calls[i].args[1] = "upgrade" }

RepoConfigured == input.repo # ""
DependenciesConfigured == Len(InputDependencies) > 0

ExactlyOneOf(username, password) == is_defined(username) # is_defined(password)

PairedMessages ==
    { "supplied repo-username but missing repo-password",
      "supplied repo-password but missing repo-username" }

----------------------------------------------------------------------------
(* Properties *)

\* C1: when the run reports its final outcome, on every exit path, the
\* repository-list file, the registry-authentication file and the transient
\* kubeconfig file it created have all been removed.
C1_TransientFilesRemoved ==
    Done => TransientFiles \cap fs = {}

\* C2: a run with command = delete and no release fails with the
\* missing-field error naming release, and has made no helm invocation of
\* any kind.
C2_DeleteWithoutRelease ==
    (Command = "delete" /\ input.release = "") =>
        /\ calls = << >>
        /\ Done => (outcome = "failure" /\ error = MissingConfigError("release"))

\* C3 as stated: supplying exactly one of repo-username / repo-password
\* always ends the run with the message 'supplied X but missing Y'.
C3_AlwaysPairedMessage ==
    (ExactlyOneOf(input.repoUsername, input.repoPassword) /\ Done) =>
        error.msg \in PairedMessages

\* C3 amended: supplying exactly one of repo-username / repo-password always
\* fails the run before any transient file is created and before any helm
\* invocation; the error is 'supplied X but missing Y' whenever the inputs
\* parse and name a command (an earlier required-field or parse error takes
\* precedence otherwise); supplying both or neither never fails this check.
C3_PairedCredentials ==
    /\ ExactlyOneOf(input.repoUsername, input.repoPassword) =>
            /\ calls = << >>
            /\ tmpSeq = 0
            /\ fs = InitFS
            /\ Done => outcome = "failure"
            /\ (Done /\ parseConfigError(input, InitFS) = NoError /\ Command # "") =>
                    error.msg =
                        IF is_defined(input.repoUsername)
                        THEN "supplied repo-username but missing repo-password"
                        ELSE "supplied repo-password but missing repo-username"
    /\ ~ExactlyOneOf(input.repoUsername, input.repoPassword) =>
            error.msg \notin PairedMessages

\* C3 witness: a run with only a password supplied has ended with the paired
\* error
C3_Witness ==
    /\ Done
    /\ ~is_defined(input.repoUsername) /\ is_defined(input.repoPassword)
    /\ error.msg = "supplied repo-password but missing repo-username"

\* C4: a dependency entry with exactly one of username / password fails the
\* run before any credential file is written and before any helm invocation.
C4_DependencyCredentials ==
    (\E i \in 1..Len(InputDependencies) :
        ExactlyOneOf(InputDependencies[i].username,
                     InputDependencies[i].password)) =>
        /\ calls = << >>
        /\ tmpSeq = 0
        /\ Done => outcome = "failure"

\* C5: a successful push run of a local chart makes exactly the invocations
\* repo update, inspect chart, dependency update, package (with --version /
\* --app-version when overridden) and push of the package path to the
\* repository URL, in this order and no others.
C5_PushInvocations ==
    (Command = "push" /\ Succeeded) =>
        /\ Len(calls) = 5
        /\ IsRepoUpdate(calls[1])
        /\ calls[2].args = << "inspect", "chart", conf.chart >>
        /\ SubSeq(calls[3].args, 1, 3) = << "dependency", "update", conf.chart >>
        /\ calls[4].args = << "package" >> \o packageArgs(conf) \o << conf.chart >>
        /\ SubSeq(calls[5].args, 1, 3) = << "push", packaged(conf), pushURL(conf) >>

\* the package path and the repository url a push of ./mychart is expected
\* to use, stated from the inputs
ExpectedPackagePath ==
    "/ws/mychart/myactualchart-"
        \o (IF input.chartVersion # "" THEN input.chartVersion ELSE "0.3.0")
        \o ".tgz"
OciForm(u) ==
    CASE u = RepoURL -> "oci://charts.example.com/bitnami"
      [] u = HttpRepoURL -> "oci://charts.example.com/stable"
      [] u = S3RepoURL -> "oci://bucket.example.com/charts"
      [] u = DepURL -> "oci://charts.example.com/flink"
      [] u = Dep2URL -> "oci://charts.example.com/zookeeper"
      [] OTHER -> u
ExpectedPushURL ==
    IF input.useOCI # "false" THEN OciForm(input.repo) ELSE input.repo

\* C6: a delete run with a release and neither repo nor dependencies makes
\* exactly two invocations: repo update with both credential-artifact
\* paths, then 'delete -n default <release>'.
C6_DeleteInvocations ==
    (/\ Command = "delete" /\ input.release # ""
     /\ ~RepoConfigured /\ ~DependenciesConfigured
     /\ input.namespace = "" /\ input.kubeconfigPath = ""
     /\ input.kubeconfigInline = ""
     /\ Succeeded) =>
        /\ Len(calls) = 2
        /\ calls[1].args = << "repo", "update" >> \o credentialFlags(configs)
        /\ calls[2].args = << "delete", "-n", "default", input.release >>

\* C7: in a run that reached the try block, repo update is invoked if and
\* only if a primary repo URL is configured or the dependencies list is
\* non-empty, and at most once.
C7_RepoUpdateIffConfigured ==
    /\ Cardinality(RepoUpdateCalls) <= 1
    /\ (Done /\ kubeconfigFile # "") =>
            (RepoUpdateCalls # {} <=> (RepoConfigured \/ DependenciesConfigured))

\* C8: in an upgrade run with a repo or a dependency configured, the first
\* helm invocation is the repo update.
C8_RepoUpdateFirst ==
    (Command = "upgrade" /\ (RepoConfigured \/ DependenciesConfigured)
        /\ calls # << >>) =>
        IsRepoUpdate(calls[1])

\* C9: every repo-touching invocation (repo update, dependency update, push,
\* upgrade) carries --registry-config and --repository-config with the
\* paths of the two files buildHelmConfigFiles created for this run, which
\* are on disk while the try block runs.
C9_CredentialFlags ==
    /\ \A i \in 1..Len(calls) :
            IsRepoTouching(calls[i]) =>
                /\ HasFlag(calls[i].args, "--registry-config", configs.registryConfigFile)
                /\ HasFlag(calls[i].args, "--repository-config", configs.repositoryConfigFile)
                /\ FlagValues(calls[i].args, "--registry-config")
                        = << configs.registryConfigFile >>
                /\ FlagValues(calls[i].args, "--repository-config")
                        = << configs.repositoryConfigFile >>
    /\ (calls # << >> /\ pc \notin { "entrypointCatch", "done", "exited" }) =>
            /\ configs.registryConfigFile # configs.repositoryConfigFile
            /\ { configs.registryConfigFile, configs.repositoryConfigFile } \subseteq fs

\* C9 witness: a push run has made its repo update, dependency update and
\* push invocations
C9_Witness ==
    /\ Succeeded
    /\ Command = "push"
    /\ Cardinality({ i \in 1..Len(calls) : IsRepoTouching(calls[i]) }) = 3

\* C10: in the upgrade invocation the --values arguments are, in order, one
\* per valueFiles entry in listed order, then the inline values file last.
C10_ValuesOrder ==
    \A i \in UpgradeCalls :
        FlagValues(calls[i].args, "--values") = conf.valueFiles \o << "values.yml" >>

\* C10 witness: an upgrade was invoked with two different value files
C10_Witness ==
    \E i \in UpgradeCalls :
        /\ Len(conf.valueFiles) = 2
        /\ conf.valueFiles[1] # conf.valueFiles[2]

\* the chart argument and the flags an upgrade is expected to carry, stated
\* from the inputs
ExpectedChart ==
    IF pathExists(input.chart, InitFS) THEN dirname(Absolute(input.chart))
    ELSE input.chart
ExpectedKubeconfig ==
    IF input.kubeconfigInline # "" THEN kubeconfigFile ELSE input.kubeconfigPath
ExpectedUpgradeFlags ==
    << "-n", IF input.namespace = "" THEN "default" ELSE input.namespace >>
    \o (IF ExpectedKubeconfig # "" THEN << "--kubeconfig", ExpectedKubeconfig >> ELSE << >>)
    \o (IF toLowerCase(input.dryRun) \in { "true", "yes" } THEN << "--dry-run" >> ELSE << >>)
    \o (IF input.chartVersion # "" THEN << "--version", input.chartVersion >> ELSE << >>)
    \o (IF input.timeout # "" THEN << "--timeout", input.timeout >> ELSE << >>)
    \o (IF toLowerCase(input.atomic) \notin { "false", "no" } THEN << "--atomic" >> ELSE << >>)

\* args is a sequence of '--values <file>' pairs
OnlyValues(args) ==
    /\ Len(args) % 2 = 0
    /\ \A k \in 1..Len(args) : (k % 2 = 1) => args[k] = "--values"

\* C11: the upgrade invocation is 'upgrade <release> <chart> --install --wait
\* --registry-config <f> --repository-config <f>' followed by, each present
\* exactly when its input is set and in this order, -n <namespace>,
\* --kubeconfig <path>, --dry-run, --version <chartVersion>, --timeout
\* <timeout>, --atomic, then the --values arguments; without a namespace and
\* an atomic input, '-n default' and '--atomic' are present.
C11_UpgradeArguments ==
    \A i \in UpgradeCalls :
        LET head == << "upgrade", input.release, ExpectedChart, "--install", "--wait",
                       "--registry-config", configs.registryConfigFile,
                       "--repository-config", configs.repositoryConfigFile >>
                    \o ExpectedUpgradeFlags
            args == calls[i].args
        IN  /\ Len(args) >= Len(head)
            /\ SubSeq(args, 1, Len(head)) = head
            /\ OnlyValues(SubSeq(args, Len(head) + 1, Len(args)))

\* C11 witness: an upgrade was invoked with every optional input set
C11_Witness ==
    /\ UpgradeCalls # {}
    /\ input.namespace = "prod" /\ input.kubeconfigPath = "/ws/kubeconfig"
    /\ input.kubeconfigInline = "" /\ input.dryRun = "true"
    /\ input.chartVersion = "3.1.1" /\ input.timeout = "1m30s"
    /\ input.atomic = ""

\* a write-back of the renderer has emptied the values file and not yet
\* written to it
ValuesFileEmptied ==
    \E i \in DOMAIN promises :
        promises[i].file = valuesFile /\ promises[i].stage = "write"

\* C12: without a values input the values normalize to the empty-object
\* document, the values file is written with it (it holds that document
\* whenever no write-back of the renderer is in the middle of rewriting
\* it), and the upgrade invocation still ends with
\* '--values <valuesFilePath>'.
C12_DefaultValuesFile ==
    (input.values = "" /\ pc \notin { "parseConfig", "entrypointCatch" } /\ error = NoError) =>
        /\ conf.values = "{}"
        /\ \A i \in UpgradeCalls :
                LET args == calls[i].args
                IN  /\ SubSeq(args, Len(args) - 1, Len(args)) = << "--values", "values.yml" >>
                    /\ ~ValuesFileEmptied => valuesDoc = "{}"
                    /\ "/ws/values.yml" \in fs

\* C12 witness: an upgrade without a values input was invoked
C12_Witness ==
    /\ input.values = ""
    /\ UpgradeCalls # {}

PackageCalls == { i \in 1..Len(calls) : calls[i].args[1] = "package" }
PushCalls == { i \in 1..Len(calls) : calls[i].args[1] = "push" }
LocalChart == input.chart \in { "./mychart", "./mychart/Chart.yaml" }
PackageMissing ==
    Err("Error", "Could not find packaged chart.Expected " \o ExpectedPackagePath)

\* C13: in a push run the package path is '<chart-path>/<manifest name>-<V>.tgz'
\* with V the chart-version override when set and the manifest version
\* otherwise; the publish invocation happens only if that path exists after
\* the package step and publishes exactly that path; if the path does not
\* exist the run fails with no publish invocation and no second package
\* invocation.
C13_PackagePath ==
    (Command = "push" /\ LocalChart) =>
        /\ Cardinality(PackageCalls) <= 1
        /\ \A i \in PushCalls :
                /\ calls[i].args[2] = ExpectedPackagePath
                /\ ExpectedPackagePath \in fs
                /\ i - 1 \in PackageCalls /\ calls[i - 1].ok
        /\ \A i \in PackageCalls :
                (calls[i].ok /\ pc # "package") =>
                    IF ExpectedPackagePath \in fs
                    THEN error # PackageMissing /\ (PushCalls = {} => pc = "push")
                    ELSE /\ PushCalls = {}
                         /\ pc = "catch" => error = PackageMissing
                         /\ outcome # "success"
                         /\ Done => outcome = "failure"

\* C13 witness: a push with a chart-version override has published the
\* package named after the override
C13_Witness ==
    /\ Command = "push" /\ LocalChart
    /\ input.chartVersion = "3.1.1"
    /\ \E i \in PushCalls : calls[i].args[2] = "/ws/mychart/myactualchart-3.1.1.tgz"

\* C14: in a push run the publish invocation includes --force when force is
\* requested and omits it otherwise.
C14_ForceFlag ==
    \A i \in PushCalls :
        ("--force" \in Range(calls[i].args))
            <=> (toLowerCase(input.force) \in { "true", "yes" })

\* the scheme of the repository urls of the model, read off the string
SchemeOf(u) ==
    CASE u \in { RepoURL, DepURL, Dep2URL } -> "https"
      [] u = HttpRepoURL -> "http"
      [] u = S3RepoURL -> "s3"
      [] OTHER -> "oci"

\* C15 as stated: with useOCI the url replaceURLProtocol returns, as passed
\* to the push, has the OCI scheme, which is not the scheme the url had
\* before, and host and path unchanged, for every input scheme including OCI.
C15_SchemeAlwaysChanges ==
    \A i \in PushCalls :
        input.useOCI # "false" =>
            /\ calls[i].args[3] = OciForm(input.repo)
            /\ SchemeOf(calls[i].args[3]) = "oci"
            /\ SchemeOf(calls[i].args[3]) # SchemeOf(input.repo)

\* C15 amended: with useOCI the url replaceURLProtocol returns has the OCI
\* scheme and host and path unchanged, for every input scheme; its scheme
\* differs from the original scheme unless the input already used the OCI
\* scheme, and then the url is returned unchanged.
C15_OciScheme ==
    \A i \in PushCalls :
        input.useOCI # "false" =>
            /\ calls[i].args[3] = OciForm(input.repo)
            /\ SchemeOf(calls[i].args[3]) = "oci"
            /\ IF SchemeOf(input.repo) = "oci"
               THEN calls[i].args[3] = input.repo
               ELSE SchemeOf(calls[i].args[3]) # SchemeOf(input.repo)

\* C15 witness: a push to an http repository was invoked with the url
\* rewritten to the OCI scheme
C15_Witness ==
    \E i \in PushCalls :
        /\ input.repo = HttpRepoURL /\ input.useOCI = ""
        /\ calls[i].args[3] = "oci://charts.example.com/stable"

\* C16: in every run that makes a helm invocation, the 'pending' status
\* notification attempt has completed before the first invocation starts.
C16_PendingBeforeInvocations ==
    (calls # << >> \/ pc \in { "version", "buildHelmConfigFiles" }) =>
        /\ statuses # << >>
        /\ statuses[1] = "pending"

\* C16 witness: the first invocation was made and 'pending' is the only
\* status so far
C16_Witness ==
    /\ Len(calls) = 1
    /\ statuses = << "pending" >>

\* the status attempts a finished run is expected to have made, whatever
\* became of each attempt
ExpectedStatuses ==
    IF outcome = "success"
    THEN CASE Command = "delete" -> << "pending", "inactive" >>
           [] Command = "upgrade" -> << "pending", "success" >>
           [] OTHER -> << "pending" >>
    ELSE IF parseConfigError(input, InitFS) # NoError
         THEN << "failure" >>
         ELSE << "pending", "failure" >>

\* C17: a failure of a status notification (no token, no deployment event,
\* the notification call throwing) never propagates: status() returns
\* normally, no run carries a notification error, and the run makes the
\* status attempts, reaches the outcome and makes the helm invocations of the
\* same run with notification succeeding.
C17_NotificationNeverPropagates ==
    /\ error # NotificationError
    /\ Done => statuses = ExpectedStatuses

\* C17 witness: a run whose notification calls all threw has succeeded after
\* its helm invocations
C17_Witness ==
    /\ Succeeded
    /\ input.notification = "throws"
    /\ Len(calls) >= 2
    /\ Len(statuses) = 2

Last(xs) == xs[Len(xs)]

\* C18 as stated: every run that ends without error has emitted an
\* operation-specific success status after its last helm invocation returned
\* success: 'success' for upgrade, 'inactive' for delete, and one for push;
\* no run ends successfully with 'pending' as its last status.
C18_SuccessStatus ==
    Succeeded =>
        /\ calls # << >> /\ Last(calls).ok
        /\ Last(statuses) # "pending"
        /\ Command = "upgrade" => Last(statuses) = "success"
        /\ Command = "delete" => Last(statuses) = "inactive"

\* C18 amended: every upgrade or delete run that ends without error has
\* emitted its success status after its last helm invocation returned
\* success, 'success' for upgrade and 'inactive' for delete, and does not end
\* with 'pending' as its last status; a push run that ends without error
\* emits no status after 'pending'.
C18_SuccessStatusOfUpgradeAndDelete ==
    Succeeded =>
        /\ calls # << >> /\ Last(calls).ok
        /\ Command \in { "upgrade", "delete", "push" }
        /\ Command = "upgrade" => statuses = << "pending", "success" >>
        /\ Command = "delete" => statuses = << "pending", "inactive" >>
        /\ Command = "push" => statuses = << "pending" >>

\* C18 witness: a delete run has succeeded
C18_Witness ==
    /\ Succeeded
    /\ Command = "delete"
    /\ Last(statuses) = "inactive"

\* the tmp files handed out in this run
TmpFiles == { tmpName(n, tmpPostfix(n)) : n \in 1..tmpSeq }
Count(xs, x) == Cardinality({ i \in 1..Len(xs) : xs[i] = x })

\* C19: every run that ends with an error emits 'failure' exactly once,
\* after the transient files were cleaned up, and never emits 'success' or
\* 'inactive'; a run that emitted 'success' or 'inactive' never emits
\* 'failure'.
C19_FailureStatus ==
    /\ Failed =>
            /\ Count(statuses, "failure") = 1
            /\ Last(statuses) = "failure"
            /\ Count(statuses, "success") = 0 /\ Count(statuses, "inactive") = 0
            /\ TmpFiles \cap fs = {}
    /\ (Count(statuses, "success") > 0 \/ Count(statuses, "inactive") > 0) =>
            Count(statuses, "failure") = 0

\* C20: for every non-empty command other than upgrade, delete and push the
\* run (of inputs that parse, with paired credentials) fails with the unknown-command error naming the value, never ends
\* successfully, and fails immediately: no helm invocation is made and no
\* values, kubeconfig or value file is written.
C20_UnknownCommandFailsImmediately ==
    (/\ Command \notin { "", "upgrade", "delete", "push" }
     /\ parseConfigError(input, InitFS) = NoError
     /\ ~ExactlyOneOf(input.repoUsername, input.repoPassword)) =>
        /\ calls = << >>
        /\ valuesDoc = "" /\ "/ws/values.yml" \notin fs
        /\ promises = << >>
        /\ outcome # "success"
        /\ Done => error = Err("Error", "unkown helm command: " \o Command)

\* the fields the command of the run requires and the inputs lack
MissingFields ==
    CASE Command = "" -> { "command" }
      [] Command = "upgrade" ->
            { f \in { "chart", "release" } :
                (f = "chart" /\ input.chart = "") \/ (f = "release" /\ input.release = "") }
      [] Command = "push" ->
            { f \in { "chart", "repo" } :
                (f = "chart" /\ input.chart = "") \/ (f = "repo" /\ input.repo = "") }
      [] OTHER -> {}

\* the inputs have no defect other than missing required fields
OnlyMissingFields ==
    \/ parseConfigError(input, InitFS) = NoError
    \/ \E f \in MissingFields :
            parseConfigError(input, InitFS).msg = "Input required and not supplied: " \o f

\* C21: a run missing a field required for its command (command; release or
\* chart for upgrade; chart or repo for push) fails with an error that reads
\* 'required and not supplied: <field>' for such a field, with no helm
\* invocation made and no credential file created.
C21_MissingRequiredField ==
    MissingFields # {} =>
        /\ calls = << >>
        /\ tmpSeq = 0 /\ fs = InitFS
        /\ outcome # "success"
        /\ (Done /\ OnlyMissingFields) =>
                \E f \in MissingFields :
                    error.msg \in { "required and not supplied: " \o f,
                                    "Input required and not supplied: " \o f }

\* C21 witness: a push without a repo has failed naming repo
C21_Witness ==
    /\ Failed
    /\ Command = "push" /\ input.chart # "" /\ input.repo = ""
    /\ error.msg = "Input required and not supplied: repo"

\* C22: a run whose command is 'remove' and that names a release invokes
\* 'delete -n <namespace> <release>' (namespace 'default' unless given) and
\* ends successfully.
C22_RemoveDeletes ==
    (/\ Done
     /\ Command = "remove" /\ input.release # ""
     /\ parseConfigError(input, InitFS) = NoError
     /\ ~ExactlyOneOf(input.repoUsername, input.repoPassword)
     /\ \A i \in 1..Len(calls) : calls[i].ok) =>
        /\ outcome = "success"
        /\ \E i \in 1..Len(calls) :
              /\ Len(calls[i].args) >= 4
              /\ SubSeq(calls[i].args, 1, 4) =
                    << "delete", "-n",
                       IF input.namespace = "" THEN "default" ELSE input.namespace,
                       input.release >>

\* C23: normalization is idempotent: parseValues, parseValueFiles and
\* parseDependencies applied to what they returned return the identical
\* value ('{}' stays '{}', the list of non-empty paths and the list of
\* repositories stay the same lists).
C23_NormalizationIdempotent ==
    conf # NoConf =>
        /\ conf.values = parseValues(input.values)
        /\ parseValues(conf.values) = conf.values
        /\ conf.valueFiles = parseValueFiles(input.valueFiles)
        /\ parseValueFiles(JsArray(conf.valueFiles)) = conf.valueFiles
        /\ conf.dependencies = parseDependencies(input.dependencies)
        /\ parseDependencies(JsArray(conf.dependencies)) = conf.dependencies

\* C23 witness: a configuration whose values are the default document, whose
\* value files lost an empty entry and whose dependencies are not empty
C23_Witness ==
    /\ conf # NoConf
    /\ input.values = "" /\ conf.values = "{}"
    /\ conf.valueFiles # << >>
    /\ Len(conf.valueFiles) < Len(input.valueFiles.items)
    /\ conf.dependencies # << >>

\* the invocations that carry out the operation of the run: all but
\* 'version' and 'repo update'
OperationCalls ==
    { i \in 1..Len(calls) : calls[i].args[1] \notin { "version", "repo" } }

\* C24: every listed value file and the values file are completely rendered
\* and written back before the operation-specific helm invocation starts: no
\* such invocation has been made, returned or not, while a read or a write
\* of the renderer is still pending.
C24_RenderedBeforeOperation ==
    (OperationCalls # {} \/ inflight # NoCall) =>
        promises = << >>

\* renderFiles has made its promises
RenderStarted == Absolute(valuesFile) \in fs /\ pc # "writeValues"

\* the files handed to the renderer whose read has failed
RenderFailures ==
    IF conf = NoConf \/ ~RenderStarted THEN {}
    ELSE { f \in Range(conf.valueFiles) :
             /\ ~pathExists(f, fs)
             /\ \A i \in DOMAIN promises : promises[i].file # f }

\* C25: when reading, rendering or writing a file handed to the renderer
\* fails (a listed value file is missing), the error propagates: the
\* operation-specific invocation is not made and the run ends in failure.
C25_RenderFailurePropagates ==
    RenderFailures # {} =>
        /\ OperationCalls = {}
        /\ outcome # "success"
        /\ pc \in { "done", "exited" } => outcome = "failure"

\* the invocations that failed
FailedCalls == { i \in 1..Len(calls) : ~calls[i].ok }

\* C26: when a helm invocation fails, no later invocation is made and the
\* failed one is not repeated; every step is invoked at most once per run; a
\* run with a failed invocation ends in failure.
C26_FailedInvocationEndsRun ==
    /\ \A i \in FailedCalls : i = Len(calls)
    /\ FailedCalls # {} => inflight = NoCall
    /\ \A i \in 1..Len(calls) : inflight.args # calls[i].args
    /\ \A i, j \in 1..Len(calls) :
          i # j => /\ calls[i].args # calls[j].args
                   /\ calls[i].args[1] # calls[j].args[1]
    /\ FailedCalls # {} =>
          /\ outcome # "success"
          /\ pc \in { "done", "exited" } => outcome = "failure"

\* C26 witness: the second invocation of a run failed and the run has ended
\* in failure
C26_Witness ==
    /\ Failed
    /\ Len(calls) = 2 /\ calls[1].ok /\ ~calls[2].ok
    /\ error = ExecError

\* the required fields the inputs lack, the release of a delete included
MissingRequired ==
    MissingFields \cup
        (IF Command = "delete" /\ input.release = "" THEN { "release" } ELSE {})

\* C27: when the inputs lack a required field and also give exactly one of
\* repo-username / repo-password, the error reported is the one of the
\* missing required field, for every command.
C27_RequiredBeforePaired ==
    (/\ Done
     /\ MissingRequired # {}
     /\ ExactlyOneOf(input.repoUsername, input.repoPassword)
     /\ OnlyMissingFields) =>
        \E f \in MissingRequired :
            error.msg \in { "required and not supplied: " \o f,
                            "Input required and not supplied: " \o f }

\* the delete and upgrade invocations
ClusterCalls ==
    { i \in 1..Len(calls) : calls[i].args[1] \in { "delete", "upgrade" } }

\* C28: a supplied kubeconfig-inline is written to the tmp kubeconfig file
\* before the operation branch starts, and the --kubeconfig argument of the
\* delete or upgrade invocation is the path of that tmp file, also when a
\* kubeconfig-path is supplied too; with neither supplied no --kubeconfig
\* argument is passed.
C28_InlineKubeconfig ==
    /\ (input.kubeconfigInline # "" /\ (pc = "dispatch" \/ ClusterCalls # {})) =>
          /\ kubeconfigDoc = input.kubeconfigInline
          /\ kubeconfigFile \in TmpFiles
          /\ pc = "dispatch" => kubeconfigFile \in fs
    /\ \A i \in ClusterCalls :
          /\ input.kubeconfigInline # "" =>
                FlagValues(calls[i].args, "--kubeconfig") = << kubeconfigFile >>
          /\ (input.kubeconfigInline = "" /\ input.kubeconfigPath = "") =>
                \A k \in 1..Len(calls[i].args) : calls[i].args[k] # "--kubeconfig"

\* C28 witness: an upgrade given both kubeconfig-inline and kubeconfig-path
\* has been invoked with the tmp file
C28_Witness ==
    /\ input.kubeconfigInline # "" /\ input.kubeconfigPath # ""
    /\ \E i \in ClusterCalls :
          /\ calls[i].args[1] = "upgrade"
          /\ HasFlag(calls[i].args, "--kubeconfig", kubeconfigFile)
    /\ kubeconfigDoc = "apiVersion: v1"

\* the errors that say the chart of the run cannot be resolved
ChartResolutionErrors ==
    ({ resolveChartError(input.chart, InitFS) } \ { NoError })
        \cup { Err("Error", input.chart \o " does not exist") }

\* C29: every chart resolution error is raised before any helm invocation,
\* for every command; in particular a push whose chart is a well-formed
\* remote reference that is not on disk fails with no invocation made.
C29_ResolutionErrorsFirst ==
    /\ error \in ChartResolutionErrors => calls = << >>
    /\ (/\ Done
        /\ Command = "push"
        /\ validRepoChart(input.chart) /\ ~pathExists(input.chart, InitFS)
        /\ \A i \in 1..Len(calls) : calls[i].ok) =>
          /\ calls = << >>
          /\ outcome = "failure"

\* C30: the values override file a run has written is deleted by the end
\* of the run, on success and on every failure path.
C30_ValuesFileDeleted ==
    pc = "exited" => Absolute(valuesFile) \notin fs

\* C31: a failure to remove one tmp file on the failure path is not thrown:
\* the other tmp files are still removed (at most the one that could not be
\* unlinked stays) and the error that ends the run is the original failure,
\* never the removal error.
C31_RemovalFailureNotThrown ==
    (Failed /\ kubeconfigFile # "") =>
        /\ error \notin { RemoveError(f) : f \in TransientFiles }
        /\ Cardinality(TransientFiles \cap fs) <= 1

\* the run failed after it created a tmp file and before it had all three
PartialMaterialization == tmpSeq > 0 /\ kubeconfigFile = ""

\* C32: when credential materialization or the acquisition of a tmp file
\* fails partway (repository document cannot be built or written, kubeconfig
\* tmp file cannot be created), the run fails and every tmp file the run
\* created has been removed when the run ends, that is when the process has
\* exited: no failure leaves a credential file on disk.  Until then the
\* files left are files tmp still tracks for removal at exit.
C32_PartialMaterializationCleaned ==
    /\ (Done /\ PartialMaterialization) =>
            /\ outcome = "failure"
            /\ TmpFiles \cap fs \subseteq tracked
    /\ (pc = "exited" /\ PartialMaterialization) =>
            /\ outcome = "failure"
            /\ TmpFiles \cap fs = {}

\* C32 witness: the process has exited after the repository document could
\* not be built for a repo that is not a url, the registry file having been
\* created
C32_Witness ==
    /\ pc = "exited"
    /\ PartialMaterialization
    /\ input.repo = BadURL
    /\ tmpSeq >= 1

\* C33: two runs that execute at the same time in the same working or data
\* directory share no file path: every file a run writes has a path of its
\* own, so the values file an upgrade is about to be invoked with holds the
\* values of this run (as written, as rendered, or nothing while this run
\* rewrites it), never those of the other run.
C33_NoSharedPaths ==
    (pc = "dispatch" /\ conf.command = "upgrade") =>
        /\ Absolute(valuesFile) \in fs
        /\ valuesDoc \in { conf.values, MustacheRender(conf.values, conf.secrets), "" }

\* the credentials and secret values of the run
Credentials ==
    { x \in { input.repoUsername, input.repoPassword } : is_defined(x) }
        \cup { InputDependencies[i].username :
                    i \in 1..Len(InputDependencies) }
        \cup { InputDependencies[i].password :
                    i \in 1..Len(InputDependencies) }
        \cup { input.secrets.text }
        \cup (IF input.secrets.kind = "object"
              THEN { input.secrets.items[i].value : i \in 1..Len(input.secrets.items) }
              ELSE {})

\* C34: in every run, no argument of any helm invocation is the repo
\* username, the repo password, a dependency credential or a value of the
\* secrets mapping; credentials reach helm only through the credential files.
C34_NoCredentialArguments ==
    /\ \A i \in 1..Len(calls) :
        /\ \A k \in 1..Len(calls[i].args) :
              calls[i].args[k] \notin (Credentials \ { "" })
        /\ IsRepoTouching(calls[i]) =>
              /\ HasFlag(calls[i].args, "--registry-config", configs.registryConfigFile)
              /\ HasFlag(calls[i].args, "--repository-config", configs.repositoryConfigFile)
    /\ \A k \in 1..Len(inflight.args) :
          inflight.args[k] \notin (Credentials \ { "" })

\* C34 witness: a chart has been pushed in a run that has repository
\* credentials, dependency credentials and a secret
C34_Witness ==
    /\ Succeeded /\ PushCalls # {}
    /\ { "admin", "123456", "bob", "hunter2", "s3cr3t" } \subseteq Credentials
    /\ conf.secrets.parsed

\* the repository-list document of the run, once written
RepositoryDocWritten == configs.repositoryConfigFile \in DOMAIN docs
RepositoryEntries == docs[configs.repositoryConfigFile].repositories

\* the entry expected for a repository, stated from the inputs
ExpectedEntry(r) ==
    [url |-> IF input.useOCI # "false" THEN OciForm(r.url) ELSE r.url,
     alias |-> r.alias, username |-> r.username, password |-> r.password,
     pass_credentials_all |-> TRUE]
ExpectedPrimaryEntry ==
    IF input.repo = "" THEN << >>
    ELSE << ExpectedEntry([url |-> input.repo,
                           alias |-> IF input.repoAlias = "" THEN "source-chart-repo"
                                     ELSE input.repoAlias,
                           username |-> trim(input.repoUsername),
                           password |-> trim(input.repoPassword)]) >>
RECURSIVE WithURL(_)
WithURL(deps) ==
    IF deps = << >> THEN << >>
    ELSE (IF trim(Head(deps).url) # "" THEN << Head(deps) >> ELSE << >>)
         \o WithURL(Tail(deps))

\* C35 as stated: the repository-list document has exactly one entry for
\* every configured dependency, in listed order, followed by one entry for the
\* primary repo when its url is set, and nothing else; every entry is marked
\* pass_credentials_all = true and, with useOCI, carries the OCI form of the
\* configured url.
C35_RepositoryListAllDependencies ==
    RepositoryDocWritten =>
        LET deps == InputDependencies
        IN  RepositoryEntries =
                [i \in 1..Len(deps) |-> ExpectedEntry(deps[i])] \o ExpectedPrimaryEntry

\* C35 amended: the repository-list document has exactly one entry for every
\* configured dependency that has a url, in listed order, followed by one
\* entry for the primary repo when its url is set, and nothing else; every
\* entry is marked pass_credentials_all = true and, with useOCI, carries the
\* OCI form of the configured url.
C35_RepositoryList ==
    RepositoryDocWritten =>
        LET deps == WithURL(InputDependencies)
        IN  /\ RepositoryEntries =
                    [i \in 1..Len(deps) |-> ExpectedEntry(deps[i])] \o ExpectedPrimaryEntry
            /\ \A i \in 1..Len(RepositoryEntries) :
                    RepositoryEntries[i].pass_credentials_all

\* C35 witness: the document of a run with useOCI, a primary repo and three
\* listed dependencies, the second without a url, has three entries: the
\* first and the third dependency in their order, then the primary repo,
\* all in OCI form
C35_Witness ==
    /\ RepositoryDocWritten
    /\ input.useOCI = "" /\ input.repo = RepoURL
    /\ Len(InputDependencies) = 3
    /\ InputDependencies[1].url = Dep2URL
    /\ InputDependencies[2].url = ""
    /\ InputDependencies[3].url = DepURL
    /\ Len(RepositoryEntries) = 3
    /\ RepositoryEntries[1].url = "oci://charts.example.com/zookeeper"
    /\ RepositoryEntries[2].url = "oci://charts.example.com/flink"
    /\ RepositoryEntries[3].url = "oci://charts.example.com/bitnami"

\* the registry-authentication document of the run, once written
RegistryFile == tmpName(1, "registries.json")
RegistryDocWritten == RegistryFile \in DOMAIN docs
RegistryAuths == docs[RegistryFile].auths

\* C36: the registry-authentication document has exactly one entry when a
\* primary repo url is configured, keyed by the url as supplied (not its OCI
\* form) and holding the supplied username and password, as the inputs are
\* read, without surrounding whitespace (empty strings when none were
\* supplied), and no entry when no primary repo url is configured;
\* dependency repositories never appear in it.
C36_RegistryAuths ==
    RegistryDocWritten =>
        /\ DOMAIN RegistryAuths = (IF input.repo = "" THEN {} ELSE { input.repo })
        /\ \A u \in DOMAIN RegistryAuths :
              /\ RegistryAuths[u].Username = trim(input.repoUsername)
              /\ RegistryAuths[u].Password = trim(input.repoPassword)
        /\ \A i \in 1..Len(InputDependencies) :
              InputDependencies[i].url # input.repo =>
                  InputDependencies[i].url \notin DOMAIN RegistryAuths

\* C36 witness: the document of a run with useOCI, an https repo without
\* credentials and a dependency has the one entry of the repo, with empty
\* strings
C36_Witness ==
    /\ RegistryDocWritten
    /\ input.useOCI = "" /\ input.repo = RepoURL
    /\ \E i \in 1..Len(InputDependencies) :
          InputDependencies[i].url = DepURL
    /\ DOMAIN RegistryAuths = { RepoURL }
    /\ RegistryAuths[RepoURL] = [Username |-> "", Password |-> ""]

\* C37: every error that reaches the entrypoint marks the run as failed
\* before the 'failure' status is emitted, whatever the kind of the thrown
\* value: no run emits 'failure' and yet ends with a zero outcome.
C37_FailureStatusImpliesFailed ==
    /\ Count(statuses, "failure") > 0 => outcome = "failure"
    /\ (Done /\ error # NoError) =>
          /\ outcome = "failure"
          /\ Last(statuses) = "failure"

\* C37 witness: a run ended by a TypeError has emitted 'failure' and is marked
\* failed
C37_Witness ==
    /\ Done
    /\ error.type = "TypeError"
    /\ Last(statuses) = "failure"
    /\ outcome = "failure"

\* the parse of the run is over
Parsed == pc # "parseConfig"

\* C38: chart classification looks at the file system first: a chart string
\* that resolves to an existing path is handled as a local chart, with its
\* manifest loaded, even when it is also a well-formed shorthand or URL; a
\* string whose path is missing and that is a well-formed shorthand or URL is
\* kept verbatim with no chart metadata; a string whose path is missing and
\* that is neither makes the parse fail with the file-system error.
C38_ChartClassification ==
    (Parsed /\ input.chart # "") =>
        IF pathExists(input.chart, InitFS)
        THEN IF resolveChartError(input.chart, InitFS) # NoError
             THEN conf = NoConf /\ calls = << >>
             ELSE parseConfigError(input, InitFS) = NoError =>
                    /\ conf.chart \in Dirs
                    /\ conf.chart # input.chart
                    /\ conf.chartMetadata.defined
                    /\ conf.chartMetadata = ChartYAML(join(conf.chart, "Chart.yaml"))
        ELSE IF validRepoChart(input.chart)
        THEN parseConfigError(input, InitFS) = NoError =>
                /\ conf.chart = input.chart
                /\ conf.chartMetadata = NoChartMetadata
        ELSE /\ conf = NoConf
             /\ calls = << >>
             /\ pc = "entrypointCatch" => error.type = "FsError"
             /\ Done => outcome = "failure"

\* C38 witness: a chart string that is a well-formed shorthand and an
\* existing directory has been resolved to that directory, manifest loaded
C38_Witness ==
    /\ Parsed
    /\ input.chart = "charts/app"
    /\ validRepoChart(input.chart)
    /\ conf.chart = "/ws/charts/app"
    /\ conf.chartMetadata.name = "app"

\* the value-files input of the run, and the list parsed from it
ValueFilesInput == input.valueFiles
ValueFilesParsed == Parsed /\ parseConfigError(input, InitFS) = NoError
NonEmptyEntries(xs) == SelectSeq(xs, LAMBDA f : f # "")

\* C39 as stated: a JSON array yields its truthy entries in order, the empty
\* string yields the empty list, and every other single string, a valid JSON
\* scalar such as '123' or 'true' included, yields the list of that string.
C39_EveryBareStringKept ==
    ValueFilesParsed =>
        CASE ValueFilesInput.kind = "array" ->
                conf.valueFiles = NonEmptyEntries(ValueFilesInput.items)
          [] ValueFilesInput.kind = "empty" -> conf.valueFiles = << >>
          [] ValueFilesInput.kind \in { "plain", "scalar" } ->
                conf.valueFiles = << ValueFilesInput.text >>
          [] OTHER -> TRUE

\* C39, amended: a JSON array yields its truthy entries in order, the empty
\* string yields the empty list, a single string that is not valid JSON
\* yields the list of that string, and a string that is valid JSON but not
\* an array (a scalar or an object) yields the empty list.
C39_ValueFilesList ==
    ValueFilesParsed =>
        /\ \A i \in 1..Len(conf.valueFiles) : conf.valueFiles[i] # ""
        /\ CASE ValueFilesInput.kind = "array" ->
                  conf.valueFiles = NonEmptyEntries(ValueFilesInput.items)
             [] ValueFilesInput.kind = "empty" -> conf.valueFiles = << >>
             [] ValueFilesInput.kind = "plain" ->
                  conf.valueFiles = << ValueFilesInput.text >>
             [] ValueFilesInput.kind \in { "scalar", "object" } ->
                  conf.valueFiles = << >>
             [] OTHER -> TRUE

\* C39 witness: the value-files string '123' has been parsed to no files
C39_Witness ==
    /\ ValueFilesParsed
    /\ ValueFilesInput = RawScalar("123")
    /\ conf.valueFiles = << >>

====
